---- MODULE Spec2Model ----
(***************************************************************************)
(* A model of the layered molecule editor core: molecules, layers, stacks, *)
(* the workspace with its range-batched mutators, the StackTree            *)
(* dehydration / hydration pair, the plugin bridge and the request         *)
(* handlers that serialise access to a workspace through its mutex.        *)
(*                                                                         *)
(* Shared ownership (Arc<T>) is modelled as a record [ptr, ...]: two       *)
(* references are pointer-equal iff their ptr fields are equal.  A new Arc *)
(* receives an address that no live Arc of the same type occupies;         *)
(* addresses of dropped Arcs may be reused, as an allocator does.          *)
(***************************************************************************)
EXTENDS Integers, Sequences, FiniteSets, TLC

(* ------------------------------ bounds ------------------------------- *)

\* usize is modelled with UsizeBits bits, so that start + range can overflow
UsizeBits == 8
\* no operation grows the stack vector beyond MaxStacks slots
MaxStacks == 2
\* no operation grows a stack beyond MaxLayers layers
MaxLayers == 2
\* number of mutating workspace operations in one behaviour
MaxOps == 4
\* number of stacks in one run of StackTree::dehydration taken on its own
MaxTreeStacks == 3
\* number of calls started on one workspace of data_manager.rs in one behaviour
MaxDmCalls == 3
\* new_empty_stack grows the vector of that workspace to MaxDmStacks stacks at most
MaxDmStacks == 3

USIZE == 2 ^ UsizeBits
\* the indices, ranges and copy counts that requests carry: the small ones
\* and the largest usize
IndexInputs == (0 .. MaxStacks) \cup {USIZE - 1}
CopyInputs == 0 .. (MaxStacks - 1)

(* --------------------------- option / result -------------------------- *)

None == [tag |-> "None"]
Some(x) == [tag |-> "Some", val |-> x]
IsSome(o) == o.tag = "Some"

Ok(x) == [tag |-> "Ok", val |-> x]
Err(e) == [tag |-> "Err", err |-> e]
IsOk(r) == r.tag = "Ok"

\* what a call yields when it panics (expect(), unwrap(), todo!(), an index
\* out of bounds, an overflow under overflow checks)
Panic == [panic |-> TRUE]
IsPanic(x) == "panic" \in DOMAIN x

\* core/src/lib.rs error::LMECoreError
PluginLayerError(code, msg) == [kind |-> "PluginLayerError", code |-> code, msg |-> msg]
NoSuchStack == [kind |-> "NoSuchStack"]
NotFillLayer == [kind |-> "NotFillLayer"]

(* ------------------------------ molecules ----------------------------- *)

Atom(element, position) == [element |-> element, position |-> position]

\* HashMap::extend: every key of high is inserted, overriding low's entry
\* an extend under which the entries of low outlive those of high
MapExtendKeepsLow(low, high) ==
    [k \in (DOMAIN low) \cup (DOMAIN high) |->
        IF k \in DOMAIN low THEN low[k] ELSE high[k]]

MapExtend(low, high) ==
    [k \in (DOMAIN low) \cup (DOMAIN high) |->
        IF k \in DOMAIN high THEN high[k] ELSE low[k]]

EmptyMap == [k \in {} |-> None]

Molecule(atoms, bonds, groups) == [atoms |-> atoms, bonds |-> bonds, groups |-> groups]

\* Molecule::default()
EmptyMolecule == Molecule(EmptyMap, EmptyMap, {})

\* Molecule::merge(low, high)
Merge(low, high) ==
    Molecule(MapExtend(low.atoms, high.atoms),
             MapExtend(low.bonds, high.bonds),
             low.groups \cup high.groups)

(* ---------------------------- transforms ------------------------------ *)

\* a Transform3<f64> is a 4x4 homogeneous matrix, given by its rows
IdentityT == << <<1,0,0,0>>, <<0,1,0,0>>, <<0,0,1,0>>, <<0,0,0,1>> >>
TranslateX == << <<1,0,0,1>>, <<0,1,0,0>>, <<0,0,1,0>>, <<0,0,0,1>> >>
\* the quarter turn about the z axis
RotateZ == << <<0,-1,0,0>>, <<1,0,0,0>>, <<0,0,1,0>>, <<0,0,0,1>> >>

RowDot(row, p) == row[1] * p[1] + row[2] * p[2] + row[3] * p[3] + row[4]

\* transform * position (the matrices used have last row (0,0,0,1), so the
\* homogeneous normaliser is 1)
TransformPoint(t, p) == << RowDot(t[1], p), RowDot(t[2], p), RowDot(t[3], p) >>

\* Atom::transform_position
TransformPosition(atom, t) == Atom(atom.element, TransformPoint(t, atom.position))

(* ------------------------------- layers ------------------------------- *)

Fill(m) == [tag |-> "Fill", mol |-> m]
Transform(t) == [tag |-> "Transform", t |-> t]
IgnoreBonds == [tag |-> "IgnoreBonds"]
ReplaceElement(origin, target) == [tag |-> "ReplaceElement", origin |-> origin, target |-> target]
RemoveElement(element) == [tag |-> "RemoveElement", element |-> element]
PluginFilter(plugin, args) == [tag |-> "PluginFilter", plugin |-> plugin, args |-> args]

(* ---------------------------- plugin bridge --------------------------- *)

\* What the plugin directory holds: "missing_binary" is no file at all, "echo"
\* copies its standard input to its standard output, "garbage" prints text
\* that is no JSON molecule, "no_read" exits without reading its input.
PluginBehaviour(plugin) ==
    CASE plugin = "echo" -> "echo"
      [] plugin = "garbage" -> "garbage"
      [] plugin = "no_read" -> "no_read"
      [] OTHER -> "missing"

JNull == [j |-> "null"]
JsonText(doc) == [text |-> "json", doc |-> doc]
EmptyText == [text |-> "empty"]
GarbageText == [text |-> "garbage"]

\* the atom indices that occur in molecules
AtomIdx == 0 .. 3
ParseUsize(s) == CHOOSE i \in AtomIdx : ToString(i) = s
ParsePair(s) == CHOOSE p \in AtomIdx \X AtomIdx : ToString(p) = s

\* serde_json::to_string(&low): map keys become strings, a tombstone becomes null
Serialize(mol) ==
    JsonText([atoms |-> [s \in {ToString(k) : k \in DOMAIN mol.atoms} |->
                            LET a == mol.atoms[ParseUsize(s)]
                            IN  IF IsSome(a) THEN a.val ELSE JNull],
              bonds |-> [s \in {ToString(k) : k \in DOMAIN mol.bonds} |->
                            mol.bonds[ParsePair(s)]],
              groups |-> mol.groups])

\* serde_json::from_str::<Molecule>(&data)
Deserialize(text) ==
    IF text.text = "json"
    THEN Ok(Molecule([k \in {ParseUsize(s) : s \in DOMAIN text.doc.atoms} |->
                         LET j == text.doc.atoms[ToString(k)]
                         IN  IF j = JNull THEN None ELSE Some(j)],
                     [k \in {ParsePair(s) : s \in DOMAIN text.doc.bonds} |->
                         text.doc.bonds[ToString(k)]],
                     text.doc.groups))
    ELSE Err("parse")

\* what the child process writes on its standard output
ChildStdout(plugin, args, stdin) ==
    IF PluginBehaviour(plugin) = "echo" THEN stdin ELSE GarbageText

\* Command::new(..).args(args).stdin(Stdio::piped()): only the standard input
\* of the child is a pipe; its standard output is inherited from the server
StdinPiped == TRUE
StdoutPiped == FALSE

\* Child::wait_with_output: the captured stdout is what came through the pipe
\* when there is one, and empty otherwise
WaitWithOutput(plugin, args, stdin) ==
    IF StdoutPiped THEN ChildStdout(plugin, args, stdin) ELSE EmptyText

\* Layer::filter, the PluginFilter arm; the result carries the commands
\* for which Command::spawn was called
PluginFilterRun(plugin, args, low) ==
    LET call == <<[plugin |-> plugin, args |-> args]>> IN
    IF PluginBehaviour(plugin) = "missing"
    THEN [res |-> Err(PluginLayerError(-1, "spawn")), spawned |-> call]
    ELSE LET data_to_send == Serialize(low) IN
         IF StdinPiped /\ PluginBehaviour(plugin) = "no_read"
         THEN [res |-> Err(PluginLayerError(-3, "write")), spawned |-> call]
         ELSE IF StdinPiped
         THEN LET output == WaitWithOutput(plugin, args, data_to_send)
                  high == Deserialize(output)
              IN  IF IsOk(high)
                  THEN [res |-> Ok(Merge(low, high.val)), spawned |-> call]
                  ELSE [res |-> Err(PluginLayerError(-5, high.err)), spawned |-> call]
         ELSE [res |-> Err(PluginLayerError(-6, "Unable to get stdin of child process")),
               spawned |-> call]

ReplaceIn(atom, origin, target) ==
    IF atom.element = origin THEN Atom(target, atom.position) ELSE atom

\* a removal that turns the atoms of other elements into atoms of the element
RemoveInRelabels(atom, element) ==
    IF IsSome(atom) /\ atom.val.element # element
    THEN Some(Atom(element, atom.val.position))
    ELSE None

\* atom.and_then(|atom| if &atom.element == element { None } else { Some(atom) })
RemoveIn(atom, element) ==
    IF IsSome(atom) /\ atom.val.element # element THEN atom ELSE None

\* Layer::filter
LayerFilter(layer, low) ==
    CASE layer.tag = "Fill" ->
            [res |-> Ok(Merge(low, layer.mol)), spawned |-> <<>>]
      [] layer.tag = "Transform" ->
            [res |-> Ok(Molecule(
                        [k \in DOMAIN low.atoms |->
                            IF IsSome(low.atoms[k])
                            THEN Some(TransformPosition(low.atoms[k].val, layer.t))
                            ELSE None],
                        low.bonds, low.groups)),
             spawned |-> <<>>]
      [] layer.tag = "IgnoreBonds" ->
            [res |-> Ok(Molecule(low.atoms, EmptyMap, low.groups)), spawned |-> <<>>]
      [] layer.tag = "ReplaceElement" ->
            [res |-> Ok(Molecule(
                        [k \in DOMAIN low.atoms |->
                            IF IsSome(low.atoms[k])
                            THEN Some(ReplaceIn(low.atoms[k].val, layer.origin, layer.target))
                            ELSE None],
                        low.bonds, low.groups)),
             spawned |-> <<>>]
      [] layer.tag = "RemoveElement" ->
            [res |-> Ok(Molecule(
                        [k \in DOMAIN low.atoms |-> RemoveIn(low.atoms[k], layer.element)],
                        low.bonds, low.groups)),
             spawned |-> <<>>]
      [] layer.tag = "PluginFilter" ->
            PluginFilterRun(layer.plugin, layer.args, low)

(* ------------------- layers of src/src/data_manager.rs ---------------- *)

\* The Layer of data_manager.rs works on (AtomTable, BondGraph); the pair is
\* held here as a Molecule without groups.
Transparent == [tag |-> "Transparent"]
DmFill(m) == [tag |-> "DmFill", mol |-> m]
HideBonds == [tag |-> "HideBonds"]
Rotation(matrix, center) == [tag |-> "Rotation", matrix |-> matrix, center |-> center]
Translate(vector) == [tag |-> "Translate", vector |-> vector]
HideHydrogens == [tag |-> "HideHydrogens"]

VAdd(p, q) == << p[1] + q[1], p[2] + q[2], p[3] + q[3] >>
VSub(p, q) == << p[1] - q[1], p[2] - q[2], p[3] - q[3] >>
\* (v.transpose() * matrix).transpose() for a 3x3 matrix given by its rows
RowTimes(v, m) ==
    << v[1] * m[1][1] + v[2] * m[2][1] + v[3] * m[3][1],
       v[1] * m[1][2] + v[2] * m[2][2] + v[3] * m[3][2],
       v[1] * m[1][3] + v[2] * m[2][3] + v[3] * m[3][3] >>

\* atom_table.into_par_iter().filter_map(|(idx, atom)| atom.and_then(..)).unzip():
\* the indices of the atoms that are present
PresentIdxs(atoms) == {i \in DOMAIN atoms : IsSome(atoms[i])}

\* the zip of the indices with the moved atoms back into a HashMap: the new
\* table has the indices of the atoms that were present, each at positions[k]
MovePresent(atoms, positions) ==
    [k \in PresentIdxs(atoms) |-> Some(Atom(atoms[k].val.element, positions[k]))]

\* data_manager.rs Layer::read, without the Plugin arm; the HideHydrogens arm
\* is todo!()
DmLayerRead(layer, m) ==
    CASE layer.tag = "Transparent" -> Ok(m)
      [] layer.tag = "HideHydrogens" -> Panic
      [] layer.tag = "DmFill" ->
            Ok(Molecule(MapExtend(m.atoms, layer.mol.atoms),
                        MapExtend(m.bonds, layer.mol.bonds), m.groups))
      [] layer.tag = "HideBonds" -> Ok(Molecule(m.atoms, EmptyMap, m.groups))
      [] layer.tag = "Rotation" ->
            LET positions ==
                    [k \in PresentIdxs(m.atoms) |->
                        VSub(RowTimes(VSub(m.atoms[k].val.position, layer.center),
                                      layer.matrix),
                             layer.center)]
            IN  Ok(Molecule(MovePresent(m.atoms, positions), m.bonds, m.groups))
      [] layer.tag = "Translate" ->
            LET positions ==
                    [k \in PresentIdxs(m.atoms) |->
                        VAdd(m.atoms[k].val.position, layer.vector)]
            IN  Ok(Molecule(MovePresent(m.atoms, positions), m.bonds, m.groups))

\* data_manager.rs Layer::write
DmLayerWrite(layer, patch) ==
    IF layer.tag = "DmFill"
    THEN Ok(DmFill(Molecule(MapExtend(layer.mol.atoms, patch.atoms),
                            MapExtend(layer.mol.bonds, patch.bonds), layer.mol.groups)))
    ELSE Err(NotFillLayer)

\* data_manager.rs Stack { config, base: Option<Arc<Stack>>, cached }
DmStack(config, base, cached) == [config |-> config, base |-> base, cached |-> cached]

\* impl Default for Stack
DefaultStack == DmStack(Transparent, None, EmptyMolecule)

\* data_manager.rs Stack::overlay
StackOverlay(base, config) ==
    IF IsSome(base)
    THEN LET r == DmLayerRead(config, base.val.cached) IN
         IF IsPanic(r) THEN Panic
         ELSE IF IsOk(r) THEN Ok(DmStack(config, base, r.val)) ELSE r
    ELSE Ok(DmStack(config, base, EmptyMolecule))

\* data_manager.rs Stack::write, on the clone the caller made: the stack after
\* the call, or the error
DmStackWrite(stack, patch) ==
    LET w == DmLayerWrite(stack.config, patch) IN
    IF ~IsOk(w) THEN w
    ELSE LET r == DmLayerRead(w.val,
                      IF IsSome(stack.base) THEN stack.base.val.cached ELSE EmptyMolecule)
         IN  IF IsOk(r) THEN Ok(DmStack(w.val, stack.base, r.val)) ELSE r

\* data_manager.rs LayerTree { config, indexes, children }
LayerTree(config, indexes, children) ==
    [config |-> config, indexes |-> indexes, children |-> children]

RECURSIVE ToStack(_, _)
RECURSIVE ToStackAll(_, _, _)
\* LayerTree::to_stack: Ok of the map from stack index to stack, or the error
\* of the first overlay that fails
ToStack(tree, base) ==
    LET layer == StackOverlay(base, tree.config) IN
    IF IsPanic(layer) THEN Panic
    ELSE IF ~IsOk(layer) THEN layer
    ELSE LET own == [i \in {tree.indexes[k] : k \in 1 .. Len(tree.indexes)} |-> layer.val]
             sub == ToStackAll(tree.children, Some(layer.val), 1)
         IN  IF IsPanic(sub) THEN Panic
             ELSE IF ~IsOk(sub) THEN sub
             ELSE Ok(MapExtend(own, sub.val))

\* the loop over the children from the k-th on: what they add to the map
ToStackAll(children, base, k) ==
    IF k > Len(children) THEN Ok(EmptyMap)
    ELSE LET first == ToStack(children[k], base) IN
         IF IsPanic(first) THEN Panic
         ELSE IF ~IsOk(first) THEN first
         ELSE LET rest == ToStackAll(children, base, k + 1) IN
              IF IsPanic(rest) THEN Panic
              ELSE IF ~IsOk(rest) THEN rest
              ELSE Ok(MapExtend(first.val, rest.val))

(* ------------------------------- stacks ------------------------------- *)

\* An Arc<Layer> is [ptr, val]; a Stack is the sequence of its Arc<Layer>;
\* an Arc<Stack> is [ptr, layers].
ArcLayer(ptr, val) == [ptr |-> ptr, val |-> val]
ArcStack(ptr, layers) == [ptr |-> ptr, layers |-> layers]

\* the values of the layers, bottom to top (what PartialEq on Stack compares)
LayerVals(layers) == [i \in 1 .. Len(layers) |-> layers[i].val]

\* a get_base that splits off the first layer instead of the last
GetBaseDropsBottom(layers) ==
    IF Len(layers) > 0 THEN SubSeq(layers, 2, Len(layers)) ELSE <<>>

\* Stack::get_base
GetBase(layers) ==
    IF Len(layers) > 0 THEN SubSeq(layers, 1, Len(layers) - 1) ELSE <<>>

\* Stack::add_layer
AddLayer(layers, layer) == Append(layers, layer)

\* a write that never merges into the top Fill layer
StackWriteAlwaysAppends(layers, w, ptr) == Append(layers, ArcLayer(ptr, Fill(w)))

\* Stack::write; ptr is the address of the Arc<Layer> the call creates
StackWrite(layers, w, ptr) ==
    IF Len(layers) > 0 /\ layers[Len(layers)].val.tag = "Fill"
    THEN [layers EXCEPT ![Len(layers)] =
              ArcLayer(ptr, Fill(Merge(layers[Len(layers)].val.mol, w)))]
    ELSE AddLayer(layers, ArcLayer(ptr, Fill(w)))

RECURSIVE ReadLoopTopDown(_, _, _, _)
\* a read that folds the layers from the top of the stack down
ReadLoopTopDown(layers, i, container, spawned) ==
    IF i > Len(layers)
    THEN [res |-> Ok(container), spawned |-> spawned]
    ELSE LET r == LayerFilter(layers[Len(layers) + 1 - i].val, container) IN
         IF IsOk(r.res)
         THEN ReadLoopTopDown(layers, i + 1, r.res.val, spawned \o r.spawned)
         ELSE [res |-> r.res, spawned |-> spawned \o r.spawned]

RECURSIVE ReadLoopKeepsGoing(_, _, _, _)
\* a read that remembers the first error but still runs the layers above it
ReadLoopKeepsGoing(layers, i, container, spawned) ==
    IF i > Len(layers)
    THEN [res |-> Ok(container), spawned |-> spawned]
    ELSE LET r == LayerFilter(layers[i].val, container) IN
         IF IsOk(r.res)
         THEN ReadLoopKeepsGoing(layers, i + 1, r.res.val, spawned \o r.spawned)
         ELSE LET rest == ReadLoopKeepsGoing(layers, i + 1, container, spawned \o r.spawned)
              IN  [res |-> r.res, spawned |-> rest.spawned]

RECURSIVE ReadLoop(_, _, _, _)
\* the for loop of Stack::read from layer i on; ? returns at the first error
ReadLoop(layers, i, container, spawned) ==
    IF i > Len(layers)
    THEN [res |-> Ok(container), spawned |-> spawned]
    ELSE LET r == LayerFilter(layers[i].val, container) IN
         IF IsOk(r.res)
         THEN ReadLoop(layers, i + 1, r.res.val, spawned \o r.spawned)
         ELSE [res |-> r.res, spawned |-> spawned \o r.spawned]

\* Stack::read
StackRead(layers, container) == ReadLoop(layers, 1, container, <<>>)

(* ------------------------------ workspace ----------------------------- *)

\* the address a new Arc gets: one that no live Arc occupies
Fresh(used) == CHOOSE p \in 1 .. (Cardinality(used) + 1) :
                   p \notin used /\ \A q \in 1 .. (p - 1) : q \in used

StackPtrs(stks) == {stks[i].ptr : i \in 1 .. Len(stks)}
LayerPtrs(stks) ==
    UNION {{stks[i].layers[j].ptr : j \in 1 .. Len(stks[i].layers)} : i \in 1 .. Len(stks)}

RECURSIVE FreshSeq(_, _)
\* n addresses for n new Arcs that are alive together
FreshSeq(used, n) ==
    IF n = 0 THEN <<>>
    ELSE LET p == Fresh(used) IN <<p>> \o FreshSeq(used \cup {p}, n - 1)

\* Workspace::read
WorkspaceRead(b, stks, index) ==
    IF index < Len(stks)
    THEN StackRead(stks[index + 1].layers, b)
    ELSE [res |-> Err(NoSuchStack), spawned |-> <<>>]

\* a create_stack whose loop runs over 0..copies instead of 0..=copies
CreateStackOpExclusive(stks, stack, copies) ==
    [ret |-> Len(stks), stacks |-> stks \o [i \in 1 .. copies |-> stack]]

\* Workspace::create_stack
CreateStackOp(stks, stack, copies) ==
    [ret |-> Len(stks), stacks |-> stks \o [i \in 1 .. (copies + 1) |-> stack]]

\* Workspace::clone_stack
CloneStackOp(stks, stack_idx, copies) ==
    IF stack_idx < Len(stks)
    THEN LET r == CreateStackOp(stks, stks[stack_idx + 1], copies)
         IN  [ret |-> Some(r.ret), stacks |-> r.stacks]
    ELSE [ret |-> None, stacks |-> stks]

\* Workspace::clone_base
CloneBaseOp(stks, stack_idx, copies) ==
    IF stack_idx < Len(stks)
    THEN LET base_stack == ArcStack(Fresh(StackPtrs(stks)), GetBase(stks[stack_idx + 1].layers))
             r == CreateStackOp(stks, base_stack, copies)
         IN  [ret |-> Some(r.ret), stacks |-> r.stacks]
    ELSE [ret |-> None, stacks |-> stks]

\* let max_idx = start_idx + range - 1; if max_idx >= self.stacks.len() ..:
\* "panic" with overflow checks (debug profile), wrapping otherwise (release)
RangeCheck(start_idx, range, len, checks) ==
    LET sum == start_idx + range
        wrapped == sum % USIZE
    IN  IF checks /\ (sum >= USIZE \/ sum = 0)
        THEN "panic"
        ELSE LET max_idx == (wrapped + USIZE - 1) % USIZE
             IN  IF max_idx >= len THEN "false" ELSE "true"

\* the indices of (start_idx..start_idx + range), in ascending order
RangeIndices(start_idx, range) ==
    LET end == (start_idx + range) % USIZE
    IN  IF start_idx < end THEN [k \in 1 .. (end - start_idx) |-> start_idx + k - 1] ELSE <<>>

\* .par_bridge().map(f).collect::<Vec<_>>(): the bridge hands the items to the
\* workers of the pool and gathers what they return; order[j] is the position,
\* in the range, of the item whose result arrives j-th
ParBridgeCollect(mapped, order) == [j \in 1 .. Len(mapped) |-> mapped[order[j]]]

\* the orders in which the results of n items can arrive
ParBridgeOrders(n) == Permutations(1 .. n)

\* the arrival orders a batch call can meet: the map runs only past the range check
BatchOrders(stks, start_idx, range, checks) ==
    IF RangeCheck(start_idx, range, Len(stks), checks) = "true"
    THEN ParBridgeOrders(Len(RangeIndices(start_idx, range)))
    ELSE {<<>>}

RECURSIVE CommitLoop(_, _, _, _)
\* for (i, stack) in stacks.into_iter().enumerate() { self.stacks[i + start_idx] = Arc::new(stack) }
CommitLoop(stks, start_idx, collected, j) ==
    IF j > Len(collected) THEN stks
    ELSE CommitLoop([stks EXCEPT ![start_idx + j] =
                        ArcStack(Fresh(StackPtrs(stks)), collected[j])],
                    start_idx, collected, j + 1)

\* Workspace::write_to_stack
WriteToStackOp(stks, start_idx, range, data, order, checks) ==
    LET chk == RangeCheck(start_idx, range, Len(stks), checks) IN
    IF chk # "true" THEN [ret |-> chk, stacks |-> stks]
    ELSE LET idx == RangeIndices(start_idx, range)
             ptrs == FreshSeq(LayerPtrs(stks), Len(idx))
             mapped == [k \in 1 .. Len(idx) |->
                           StackWrite(stks[idx[k] + 1].layers, data, ptrs[k])]
         IN  [ret |-> "true",
              stacks |-> CommitLoop(stks, start_idx, ParBridgeCollect(mapped, order), 1)]

\* Workspace::add_layer_to_stack
AddLayerToStackOp(stks, start_idx, range, layer, order, checks) ==
    LET chk == RangeCheck(start_idx, range, Len(stks), checks) IN
    IF chk # "true" THEN [ret |-> chk, stacks |-> stks]
    ELSE LET idx == RangeIndices(start_idx, range)
             mapped == [k \in 1 .. Len(idx) |-> AddLayer(stks[idx[k] + 1].layers, layer)]
         IN  [ret |-> "true",
              stacks |-> CommitLoop(stks, start_idx, ParBridgeCollect(mapped, order), 1)]

(* ------------------------------ StackTree ----------------------------- *)

\* A StackTree is [layer, indexes, children]; layers are held by value.
\* A function that hits an expect() on an empty slice yields Panic.

RECURSIVE TreeFromMarksPath(_, _)
\* a from that records the index in every node of the path
TreeFromMarksPath(vals, idx) ==
    IF Len(vals) = 1
    THEN [layer |-> vals[1], indexes |-> <<idx>>, children |-> <<>>]
    ELSE [layer |-> vals[1], indexes |-> <<idx>>,
          children |-> <<TreeFromMarksPath(Tail(vals), idx)>>]

RECURSIVE TreeFrom(_, _)
\* impl From<(&[Arc<Layer>], usize)> for StackTree, on a non-empty slice
TreeFrom(vals, idx) ==
    IF Len(vals) = 1
    THEN [layer |-> vals[1], indexes |-> <<idx>>, children |-> <<>>]
    ELSE [layer |-> vals[1], indexes |-> <<>>, children |-> <<TreeFrom(Tail(vals), idx)>>]

\* a search that finds no tree to merge into
MergeAnyFindsNone(trees, idx, vals, k) == [matched |-> FALSE, trees |-> trees]

RECURSIVE TreeMerge(_, _, _)
RECURSIVE MergeAny(_, _, _, _)
\* StackTree::merge on a non-empty slice: [matched, tree]
TreeMerge(tree, idx, vals) ==
    IF vals[1] = tree.layer
    THEN IF Len(vals) = 1
         THEN [matched |-> TRUE, tree |-> [tree EXCEPT !.indexes = Append(@, idx)]]
         ELSE LET r == MergeAny(tree.children, idx, Tail(vals), 1) IN
              IF r.matched
              THEN [matched |-> TRUE, tree |-> [tree EXCEPT !.children = r.trees]]
              ELSE [matched |-> TRUE,
                    tree |-> [tree EXCEPT !.children = Append(@, TreeFrom(Tail(vals), idx))]]
    ELSE [matched |-> FALSE, tree |-> tree]

\* trees.iter_mut().map(|tree| tree.merge(idx, layers)).any(|result| result):
\* the trees are tried in order from the k-th and the first match ends the search
MergeAny(trees, idx, vals, k) ==
    IF k > Len(trees) THEN [matched |-> FALSE, trees |-> trees]
    ELSE LET r == TreeMerge(trees[k], idx, vals) IN
         IF r.matched
         THEN [matched |-> TRUE, trees |-> [trees EXCEPT ![k] = r.tree]]
         ELSE MergeAny(trees, idx, vals, k + 1)

\* one turn of the loop of StackTree::dehydration, for the stack at index idx
DehydrationStep(stks, idx, trees) ==
    LET vals == LayerVals(stks[idx + 1].layers) IN
    IF Len(vals) = 0
    THEN Panic  \* split_first().expect(..) in merge or in from
    ELSE LET r == MergeAny(trees, idx, vals, 1) IN
         [trees |-> IF r.matched THEN r.trees ELSE Append(trees, TreeFrom(vals, idx))]

RECURSIVE DehydrationLoop(_, _, _)
\* the loop of StackTree::dehydration from the stack at index idx on
DehydrationLoop(stks, idx, trees) ==
    IF idx >= Len(stks) THEN [trees |-> trees]
    ELSE LET r == DehydrationStep(stks, idx, trees) IN
         IF IsPanic(r) THEN Panic ELSE DehydrationLoop(stks, idx + 1, r.trees)

\* StackTree::dehydration
Dehydration(stks) == DehydrationLoop(stks, 0, <<>>)

RECURSIVE ToStacks(_, _)
RECURSIVE ToStacksAll(_, _, _)
\* StackTree::to_stacks: a map from stack index to the layers of that stack
ToStacks(tree, path) ==
    LET here == Append(path, tree.layer)
        own == [i \in {tree.indexes[k] : k \in 1 .. Len(tree.indexes)} |-> here]
    IN  MapExtend(own, ToStacksAll(tree.children, here, 1))

\* map.extend(child.to_stacks(..)) over the trees from the k-th on
ToStacksAll(trees, path, k) ==
    IF k > Len(trees) THEN EmptyMap
    ELSE MapExtend(ToStacks(trees[k], path), ToStacksAll(trees, path, k + 1))

RECURSIVE SortedKeys(_)
\* the keys of the map in ascending order (sort_by on the index)
SortedKeys(keys) ==
    IF keys = {} THEN <<>>
    ELSE LET m == CHOOSE x \in keys : \A y \in keys : x <= y
         IN  <<m>> \o SortedKeys(keys \ {m})

\* StackTree::hydration: the stacks (their layer values) in index order
Hydration(trees) ==
    LET map == ToStacksAll(trees, <<>>, 1)
        keys == SortedKeys(DOMAIN map)
    IN  [i \in 1 .. Len(keys) |-> map[keys[i]]]

\* WorkspaceExport::from(&Workspace) followed by Into<Workspace>: the stacks
\* of the re-imported workspace, or Panic
ExportImport(stks) ==
    LET d == Dehydration(stks) IN
    IF IsPanic(d) THEN Panic ELSE [stacks |-> Hydration(d.trees)]

(* ------------------------------- inputs ------------------------------- *)

AtomH == Atom(1, <<0, 0, 0>>)
AtomH2 == Atom(1, <<0, 0, 1>>)

\* {1: H} with the bond 1-2
MolBase == Molecule((1 :> Some(AtomH)), (<<1, 2>> :> 1), {})
\* {1: tombstone, 2: H} with the bond 1-2 of order 2 and a group tag
MolPatch == Molecule((1 :> None) @@ (2 :> Some(AtomH2)), (<<1, 2>> :> 2), {<<2, "tag">>})

\* {1: C}
AtomC == Atom(6, <<0, 0, 0>>)
MolC == Molecule((1 :> Some(AtomC)), EmptyMap, {})
\* {1: H}
MolH == Molecule((1 :> Some(AtomH)), EmptyMap, {})
\* {1: tombstone, 2: H} with the bond 1-2
MolTomb == Molecule((1 :> None) @@ (2 :> Some(AtomH2)), (<<1, 2>> :> 1), {})

BaseInputs == {MolBase}
WriteInputs == {EmptyMolecule, MolPatch}
LayerInputs ==
    {RemoveElement(1), PluginFilter("echo", <<>>), PluginFilter("missing_binary", <<>>)}

(* -------------------------------- state ------------------------------- *)

VARIABLES
    base,             \* Workspace.base
    stacks,           \* Workspace.stacks: Vec<Arc<Stack>>
    last,             \* the call being answered: its name, arguments, the stacks before it, its result
    ops,              \* number of calls so far that changed the stack vector
    lock,             \* the holder of the workspace mutex (NoHolder when free)
    req,              \* per client, the request its handler task is serving
    child,            \* the evaluation of one PluginFilter layer, step by step
    eval,             \* the evaluation of one stack over a molecule, layer by layer
    dh,               \* one run of StackTree::dehydration, stack by stack
    store,            \* the server store: workspace name -> workspace
    storeLock,        \* the RwLock around the server store
    task,             \* per client, the create / remove workspace request it is serving
    calc,             \* one call of a function of utils.rs or of clean_molecule, and what it gave
    uvm,              \* a UniqueValueMap and the answer to the last call on it
    dm                \* the workspace of data_manager.rs and the calls running on it

wsVars == <<base, stacks, last, ops>>
srvVars == <<lock, req>>
utilVars == <<calc, uvm, dm>>
auxVars == <<child, eval, dh, store, storeLock, task, utilVars>>
vars == <<base, stacks, last, ops, lock, req, child, eval, dh, store, storeLock, task,
          calc, uvm, dm>>

Clients == {1, 2}
NoHolder == 0
IdleReq == [pc |-> "idle"]

WithinBounds(stks) ==
    /\ Len(stks) <= MaxStacks
    /\ \A i \in 1 .. Len(stks) : Len(stks[i].layers) <= MaxLayers

\* no call is being answered
Idle == [op |-> "none"]

\* the workspaces the server store can hold are named by these path segments
WorkspaceNames == {"a", "b"}
\* HashMap::new(): no name has a workspace
EmptyStore == [n \in WorkspaceNames |-> None]
\* RwLock::new(..): no writer and no readers
RwFree == [writer |-> NoHolder, readers |-> {}]

\* nothing of the kind is in progress
NoChild == [pc |-> "idle"]
NoEval == [pc |-> "idle"]
NoDh == [pc |-> "idle"]

NoCalc == [pc |-> "idle"]
NoUvm == [pc |-> "idle"]
NoDm == [pc |-> "idle"]
UtilQuiet == calc = NoCalc /\ uvm = NoUvm /\ dm = NoDm
PlugQuiet == child = NoChild
EvalQuiet == eval = NoEval
TreeQuiet == dh = NoDh
StoreQuiet ==
    /\ store = EmptyStore
    /\ storeLock = RwFree
    /\ task = [c \in Clients |-> IdleReq]

\* the effect of a mutator with result r on the workspace
Commit(r) ==
    /\ last = Idle
    /\ WithinBounds(r.stacks)
    /\ r.stacks # stacks => ops < MaxOps
    /\ stacks' = r.stacks
    /\ ops' = IF r.stacks # stacks THEN ops + 1 ELSE ops
    /\ UNCHANGED <<base, srvVars, auxVars>>

\* Workspace::new(base)
Init ==
    /\ base \in BaseInputs
    /\ stacks = <<>>
    /\ last = Idle
    /\ ops = 0
    /\ lock = NoHolder
    /\ req = [c \in Clients |-> IdleReq]
    /\ PlugQuiet /\ EvalQuiet /\ TreeQuiet /\ StoreQuiet /\ UtilQuiet

\* handler create_stack: workspace.create_stack(Arc::new(Stack::new(vec![])), copies)
CreateStack ==
    \E copies \in CopyInputs :
        LET stack == ArcStack(Fresh(StackPtrs(stacks)), <<>>)
            r == CreateStackOp(stacks, stack, copies)
        IN  /\ Commit(r)
            /\ last' = [op |-> "create_stack", stack |-> stack, copies |-> copies,
                        pre |-> stacks, ret |-> r.ret]

\* handler clone_stack
CloneStack ==
    \E stack_idx \in IndexInputs, copies \in CopyInputs :
        LET r == CloneStackOp(stacks, stack_idx, copies)
        IN  /\ Commit(r)
            /\ last' = [op |-> "clone_stack", stack_idx |-> stack_idx, copies |-> copies,
                        pre |-> stacks, ret |-> r.ret]

\* handler clone_base
CloneBase ==
    \E stack_idx \in IndexInputs, copies \in CopyInputs :
        LET r == CloneBaseOp(stacks, stack_idx, copies)
        IN  /\ Commit(r)
            /\ last' = [op |-> "clone_base", stack_idx |-> stack_idx, copies |-> copies,
                        pre |-> stacks, ret |-> r.ret]

\* handler write_to_stack; overflow_checks tells whether the build panics on
\* integer overflow (the debug profile) or wraps (the release profile)
WriteToStack ==
    \E start \in IndexInputs, range \in IndexInputs, data \in WriteInputs :
    \E overflow_checks \in BOOLEAN :
    \E order \in BatchOrders(stacks, start, range, overflow_checks) :
        LET r == WriteToStackOp(stacks, start, range, data, order, overflow_checks)
        IN  /\ Commit(r)
            /\ last' = [op |-> "write_to_stack", start |-> start, range |-> range,
                        data |-> data, pre |-> stacks, ret |-> r.ret]

\* handler add_layer_to_stack: workspace.add_layer_to_stack(start, range, Arc::new(layer))
AddLayerToStack ==
    \E start \in IndexInputs, range \in IndexInputs, l \in LayerInputs :
    \E overflow_checks \in BOOLEAN :
    \E order \in BatchOrders(stacks, start, range, overflow_checks) :
        LET layer == ArcLayer(Fresh(LayerPtrs(stacks)), l)
            r == AddLayerToStackOp(stacks, start, range, layer, order, overflow_checks)
        IN  /\ Commit(r)
            /\ last' = [op |-> "add_layer_to_stack", start |-> start, range |-> range,
                        layer |-> layer, pre |-> stacks, ret |-> r.ret]

\* a read that, when a layer fails, leaves the stack without its top layer
ReadDropsFailedLayer ==
    \E index \in IndexInputs :
        LET r == WorkspaceRead(base, stacks, index) IN
        /\ last = Idle
        /\ last' = [op |-> "read", index |-> index, pre |-> stacks, ret |-> r]
        /\ stacks' = IF IsOk(r.res) \/ index >= Len(stacks)
                      THEN stacks
                      ELSE [stacks EXCEPT ![index + 1] = ArcStack(@.ptr, GetBase(@.layers))]
        /\ UNCHANGED <<base, ops, srvVars, auxVars>>

\* Workspace::read(index)
Read ==
    \E index \in IndexInputs :
        /\ last = Idle
        /\ last' = [op |-> "read", index |-> index, pre |-> stacks,
                    ret |-> WorkspaceRead(base, stacks, index)]
        /\ UNCHANGED <<base, stacks, ops, srvVars, auxVars>>

\* handler workspace_export, and the import of what it returned
Export ==
    /\ last = Idle
    /\ last' = [op |-> "export", pre |-> stacks, ret |-> ExportImport(stacks)]
    /\ UNCHANGED <<base, stacks, ops, srvVars, auxVars>>

\* the handler returns its response
Respond ==
    /\ last # Idle
    /\ last' = Idle
    /\ UNCHANGED <<base, stacks, ops, srvVars, auxVars>>

Next ==
    \/ CreateStack
    \/ CloneStack
    \/ CloneBase
    \/ WriteToStack
    \/ AddLayerToStack
    \/ Read
    \/ Export
    \/ Respond

Spec == Init /\ [][Next]_vars

(* --------------------------- request handlers ------------------------- *)

\* The handlers of one workspace, each run by the task of a client's request.
\* A handler first awaits workspace.lock(); the guard it gets is dropped when
\* the handler returns.  Here ops counts the requests received.

SrvLayerInputs ==
    {RemoveElement(1), PluginFilter("echo", <<>>), PluginFilter("missing_binary", <<>>)}
SrvStartInputs == 0 .. 1
SrvRangeInputs == 1 .. 2

\* a request arrives and its handler reaches workspace.lock().await
Arrive(c, r) ==
    /\ req[c] = IdleReq
    /\ last = Idle
    /\ ops < MaxOps
    /\ ops' = ops + 1
    /\ req' = [req EXCEPT ![c] = r @@ [behind |-> Idle]]
    /\ UNCHANGED <<base, stacks, last, lock, auxVars>>

SrvArriveCreate(c) ==
    \E copies \in 0 .. 1 : Arrive(c, [pc |-> "wait_lock", kind |-> "create_stack", copies |-> copies])

SrvArriveAddLayer(c) ==
    \E start \in SrvStartInputs, range \in SrvRangeInputs, l \in SrvLayerInputs :
        Arrive(c, [pc |-> "wait_lock", kind |-> "add_layer_to_stack",
                   start |-> start, range |-> range, layer |-> l])

SrvArriveWrite(c) ==
    \E start \in SrvStartInputs, range \in SrvRangeInputs :
        Arrive(c, [pc |-> "wait_lock", kind |-> "write_to_stack",
                   start |-> start, range |-> range, data |-> MolPatch])

SrvArriveRead(c) ==
    \E start \in SrvStartInputs, range \in SrvRangeInputs :
        Arrive(c, [pc |-> "wait_lock", kind |-> "read_stacks",
                   start |-> start, range |-> range])

BatchKinds == {"write_to_stack", "add_layer_to_stack"}

\* req after client c got the guard: c remembers the stacks it found, and a
\* batch request that still waits remembers the batch that went before it
Acquired(c) ==
    [d \in Clients |->
        IF d = c
        THEN IF req[c].kind = "read_stacks"
             THEN [req[c] EXCEPT !.pc = "locked"] @@ [cur |-> req[c].start, results |-> <<>>]
             ELSE [req[c] EXCEPT !.pc = "locked"] @@ [pre |-> stacks]
        ELSE IF /\ req[d].pc = "wait_lock"
                /\ req[d].kind \in BatchKinds
                /\ req[c].kind \in BatchKinds
             THEN [req[d] EXCEPT !.behind = [op |-> req[c].kind, start |-> req[c].start,
                                             range |-> req[c].range, found |-> stacks]]
             ELSE req[d]]

\* a lock() that returns a guard whether or not another guard is alive
SrvAcquireNoExclusion(c) ==
    /\ req[c].pc = "wait_lock"
    /\ last = Idle
    /\ lock' = c
    /\ req' = Acquired(c)
    /\ UNCHANGED <<wsVars, auxVars>>

\* workspace.lock().await returns the guard
SrvAcquire(c) ==
    /\ req[c].pc = "wait_lock"
    /\ last = Idle
    /\ lock = NoHolder
    /\ lock' = c
    /\ req' = Acquired(c)
    /\ UNCHANGED <<wsVars, auxVars>>

\* the handler returns: the guard is dropped and the response goes out
Return(c) ==
    /\ lock' = NoHolder
    /\ req' = [req EXCEPT ![c] = IdleReq]

\* a mutating handler returns: last records the call, the stacks it found when
\* it got the guard and the stacks it leaves
Done(c, call, post) ==
    /\ last' = call @@ [client |-> c, pre |-> req[c].pre, post |-> post,
                        behind |-> req[c].behind]
    /\ Return(c)

\* the response of a mutating handler has gone out
SrvRespond ==
    /\ last # Idle
    /\ last' = Idle
    /\ UNCHANGED <<base, stacks, ops, srvVars, auxVars>>

\* handler create_stack, under the guard
SrvCreateStack(c) ==
    /\ req[c].pc = "locked" /\ req[c].kind = "create_stack"
    /\ LET r == CreateStackOp(stacks, ArcStack(Fresh(StackPtrs(stacks)), <<>>), req[c].copies)
       IN  /\ WithinBounds(r.stacks)
           /\ stacks' = r.stacks
           /\ Done(c, [op |-> "create_stack", start |-> Len(stacks),
                       range |-> req[c].copies + 1], r.stacks)
    /\ UNCHANGED <<base, ops, auxVars>>

\* the first half of a batch mutator: the bounds check and the parallel map
\* over the range, whose results are collected; r is what the whole call gives
BatchMap(c, r, call) ==
    IF r.ret # "true"
    THEN /\ Done(c, call, stacks)
         /\ UNCHANGED stacks
    ELSE /\ WithinBounds(r.stacks)
         /\ req' = [req EXCEPT ![c] =
                       [@ EXCEPT !.pc = "commit"] @@
                       [collected |-> [j \in 1 .. req[c].range |->
                                          r.stacks[req[c].start + j].layers],
                        j |-> 1, call |-> call]]
         /\ UNCHANGED <<stacks, last, lock>>

\* handler add_layer_to_stack, under the guard, up to the collect
SrvAddLayerToStack(c) ==
    /\ req[c].pc = "locked" /\ req[c].kind = "add_layer_to_stack"
    /\ \E overflow_checks \in BOOLEAN :
       \E order \in BatchOrders(stacks, req[c].start, req[c].range, overflow_checks) :
           LET layer == ArcLayer(Fresh(LayerPtrs(stacks)), req[c].layer)
               r == AddLayerToStackOp(stacks, req[c].start, req[c].range, layer,
                                      order, overflow_checks)
           IN  BatchMap(c, r, [op |-> "add_layer_to_stack", start |-> req[c].start,
                               range |-> req[c].range, layer |-> layer, order |-> order,
                               checks |-> overflow_checks])
    /\ UNCHANGED <<base, ops, auxVars>>

\* handler write_to_stack, under the guard, up to the collect
SrvWriteToStack(c) ==
    /\ req[c].pc = "locked" /\ req[c].kind = "write_to_stack"
    /\ \E overflow_checks \in BOOLEAN :
       \E order \in BatchOrders(stacks, req[c].start, req[c].range, overflow_checks) :
           LET r == WriteToStackOp(stacks, req[c].start, req[c].range, req[c].data,
                                   order, overflow_checks)
           IN  BatchMap(c, r, [op |-> "write_to_stack", start |-> req[c].start,
                               range |-> req[c].range, data |-> req[c].data, order |-> order,
                               checks |-> overflow_checks])
    /\ UNCHANGED <<base, ops, auxVars>>

\* the second half of a batch mutator: self.stacks[i + start_idx] = Arc::new(stack)
\* for the next collected stack, and after the last one the handler returns true
SrvCommitSlot(c) ==
    /\ req[c].pc = "commit"
    /\ IF req[c].j > Len(req[c].collected)
       THEN /\ Done(c, req[c].call, stacks)
            /\ UNCHANGED stacks
       ELSE /\ stacks' = [stacks EXCEPT ![req[c].start + req[c].j] =
                             ArcStack(Fresh(StackPtrs(stacks)), req[c].collected[req[c].j])]
            /\ req' = [req EXCEPT ![c].j = @ + 1]
            /\ UNCHANGED <<last, lock>>
    /\ UNCHANGED <<base, ops, auxVars>>

\* handler read_stacks: (start..start + range).map(|index| workspace.read(index))
\* takes the next index; a missing stack ends the request with NOT_FOUND and
\* the end of the range ends it with the molecules read
SrvReadNext(c) ==
    /\ req[c].pc = "locked" /\ req[c].kind = "read_stacks"
    /\ IF req[c].cur = req[c].start + req[c].range \/ req[c].cur >= Len(stacks)
       THEN Return(c)
       ELSE /\ req' = [req EXCEPT ![c] =
                          [@ EXCEPT !.pc = "eval"] @@
                          [stack |-> stacks[req[c].cur + 1], pos |-> 1, container |-> base]]
            /\ UNCHANGED lock
    /\ UNCHANGED <<wsVars, auxVars>>

\* Stack::read inside Workspace::read: a layer that is no plugin is applied,
\* and after the last layer the molecule is the result for this index
SrvEvalLayer(c) ==
    /\ req[c].pc = "eval"
    /\ LET layers == req[c].stack.layers
           pos == req[c].pos
       IN  IF pos > Len(layers)
           THEN req' = [req EXCEPT ![c] =
                           [pc |-> "locked", kind |-> "read_stacks", start |-> req[c].start,
                            range |-> req[c].range, cur |-> req[c].cur + 1,
                            results |-> Append(req[c].results, req[c].container)]]
           ELSE /\ layers[pos].val.tag # "PluginFilter"
                /\ req' = [req EXCEPT ![c].pos = pos + 1,
                                      ![c].container = LayerFilter(layers[pos].val, @).res.val]
    /\ UNCHANGED <<wsVars, lock, auxVars>>

\* Layer::filter on a PluginFilter layer: Command::spawn; a failure to spawn
\* ends the request, otherwise the child runs and the handler waits for it
SrvSpawnPlugin(c) ==
    /\ req[c].pc = "eval"
    /\ req[c].pos <= Len(req[c].stack.layers)
    /\ LET layer == req[c].stack.layers[req[c].pos].val
       IN  /\ layer.tag = "PluginFilter"
           /\ IF PluginBehaviour(layer.plugin) = "missing"
              THEN Return(c)
              ELSE /\ req' = [req EXCEPT ![c].pc = "plugin"]
                   /\ UNCHANGED lock
    /\ UNCHANGED <<wsVars, auxVars>>

\* the child exits and wait_with_output returns: the layer's result is merged
\* and the evaluation goes on, or its error ends the request
SrvPluginExit(c) ==
    /\ req[c].pc = "plugin"
    /\ LET layer == req[c].stack.layers[req[c].pos].val
           r == PluginFilterRun(layer.plugin, layer.args, req[c].container).res
       IN  IF IsOk(r)
           THEN /\ req' = [req EXCEPT ![c].pc = "eval", ![c].pos = @ + 1,
                                      ![c].container = r.val]
                /\ UNCHANGED lock
           ELSE Return(c)
    /\ UNCHANGED <<wsVars, auxVars>>

SrvInit ==
    /\ base = MolBase
    /\ stacks = <<>>
    /\ last = Idle
    /\ ops = 0
    /\ lock = NoHolder
    /\ req = [c \in Clients |-> IdleReq]
    /\ PlugQuiet /\ EvalQuiet /\ TreeQuiet /\ StoreQuiet /\ UtilQuiet

SrvNext ==
    \/ SrvRespond
    \/ \E c \in Clients :
        \/ SrvArriveCreate(c)
        \/ SrvArriveAddLayer(c)
        \/ SrvArriveWrite(c)
        \/ SrvArriveRead(c)
        \/ SrvAcquire(c)
        \/ SrvCreateStack(c)
        \/ SrvAddLayerToStack(c)
        \/ SrvWriteToStack(c)
        \/ SrvCommitSlot(c)
        \/ SrvReadNext(c)
        \/ SrvEvalLayer(c)
        \/ SrvSpawnPlugin(c)
        \/ SrvPluginExit(c)

SpecSrv == SrvInit /\ [][SrvNext]_vars

(* ------------------ a PluginFilter layer, step by step ---------------- *)

\* One evaluation of Layer::filter on a PluginFilter layer.  The calls into the
\* standard library and serde_json either return or fail; fault names the call
\* that the environment makes fail in this evaluation ("none" when it does not
\* interfere).  steps lists the calls made so far, in the order made.

\* no workspace and no request takes part
WsQuiet ==
    /\ base = MolBase
    /\ stacks = <<>>
    /\ last = Idle
    /\ ops = 0
    /\ lock = NoHolder
    /\ req = [c \in Clients |-> IdleReq]

PluginInputs == {"echo", "garbage", "missing_binary", "no_read"}
PluginLowInputs == {EmptyMolecule, MolBase, MolPatch}
PluginFaults == {"none", "serialize", "write", "wait"}

\* the ? operator on an Err: the function returns it
Fail(code, msg) ==
    child' = [child EXCEPT !.pc = "done", !.ret = Err(PluginLayerError(code, msg))]

\* Layer::filter is entered with a PluginFilter layer and the molecule below it
PlugBegin ==
    /\ child = NoChild
    /\ \E plugin \in PluginInputs, low \in PluginLowInputs, fault \in PluginFaults :
           child' = [pc |-> "spawn", plugin |-> plugin, args |-> <<>>, low |-> low,
                     fault |-> fault, steps |-> <<>>, data_to_send |-> EmptyText,
                     output |-> EmptyText, ret |-> None]
    /\ UNCHANGED <<wsVars, srvVars, eval, dh, store, storeLock, task, utilVars>>

\* a spawn step that reports a later step's code
PlugSpawnWrongCode ==
    /\ child.pc = "spawn"
    /\ LET c == [child EXCEPT !.steps = Append(@, "spawn")] IN
       IF PluginBehaviour(child.plugin) = "missing"
       THEN child' = [c EXCEPT !.pc = "done", !.ret = Err(PluginLayerError(-3, "spawn"))]
       ELSE child' = [c EXCEPT !.pc = "serialize"]
    /\ UNCHANGED <<wsVars, srvVars, eval, dh, store, storeLock, task, utilVars>>

\* Command::new(..).args(args).stdin(Stdio::piped()).spawn().map_err(-1)?
PlugSpawn ==
    /\ child.pc = "spawn"
    /\ LET c == [child EXCEPT !.steps = Append(@, "spawn")] IN
       IF PluginBehaviour(child.plugin) = "missing"
       THEN child' = [c EXCEPT !.pc = "done", !.ret = Err(PluginLayerError(-1, "spawn"))]
       ELSE child' = [c EXCEPT !.pc = "serialize"]
    /\ UNCHANGED <<wsVars, srvVars, eval, dh, store, storeLock, task, utilVars>>

\* serde_json::to_string(&low).map_err(-2)?
PlugSerialize ==
    /\ child.pc = "serialize"
    /\ LET c == [child EXCEPT !.steps = Append(@, "serialize")] IN
       IF child.fault = "serialize"
       THEN child' = [c EXCEPT !.pc = "done", !.ret = Err(PluginLayerError(-2, "serialize"))]
       ELSE child' = [c EXCEPT !.pc = "write", !.data_to_send = Serialize(child.low)]
    /\ UNCHANGED <<wsVars, srvVars, eval, dh, store, storeLock, task, utilVars>>

\* if let Some(ref mut stdin) = child.stdin { stdin.write_all(..).map_err(-3)? ..
\* } else { Err(-6) }: a program that does not read its input breaks the pipe
PlugWrite ==
    /\ child.pc = "write"
    /\ IF ~StdinPiped
       THEN Fail(-6, "Unable to get stdin of child process")
       ELSE LET c == [child EXCEPT !.steps = Append(@, "write")] IN
            IF child.fault = "write" \/ PluginBehaviour(child.plugin) = "no_read"
            THEN child' = [c EXCEPT !.pc = "done", !.ret = Err(PluginLayerError(-3, "write"))]
            ELSE child' = [c EXCEPT !.pc = "wait"]
    /\ UNCHANGED <<wsVars, srvVars, eval, dh, store, storeLock, task, utilVars>>

\* child.wait_with_output().map_err(-4)?: the call drops the stdin handle,
\* which closes the pipe, waits for the exit and returns what it captured
PlugWaitWithOutput ==
    /\ child.pc = "wait"
    /\ LET c == [child EXCEPT !.steps = @ \o <<"close", "wait">>] IN
       IF child.fault = "wait"
       THEN child' = [c EXCEPT !.pc = "done", !.ret = Err(PluginLayerError(-4, "wait"))]
       ELSE child' = [c EXCEPT !.pc = "parse",
                               !.output = WaitWithOutput(child.plugin, child.args,
                                                         child.data_to_send)]
    /\ UNCHANGED <<wsVars, srvVars, eval, dh, store, storeLock, task, utilVars>>

\* serde_json::from_str(&data).map_err(-5)? and Ok(Molecule::merge(low, high))
PlugParseMerge ==
    /\ child.pc = "parse"
    /\ LET c == [child EXCEPT !.steps = Append(@, "parse")]
           high == Deserialize(child.output)
       IN  IF IsOk(high)
           THEN child' = [c EXCEPT !.pc = "done", !.steps = Append(@, "merge"),
                                   !.ret = Ok(Merge(child.low, high.val))]
           ELSE child' = [c EXCEPT !.pc = "done", !.ret = Err(PluginLayerError(-5, high.err))]
    /\ UNCHANGED <<wsVars, srvVars, eval, dh, store, storeLock, task, utilVars>>

\* the caller has the result
PlugReturn ==
    /\ child.pc = "done"
    /\ child' = NoChild
    /\ UNCHANGED <<wsVars, srvVars, eval, dh, store, storeLock, task, utilVars>>

PlugInit == WsQuiet /\ PlugQuiet /\ EvalQuiet /\ TreeQuiet /\ StoreQuiet /\ UtilQuiet

PlugNext ==
    \/ PlugBegin
    \/ PlugSpawn
    \/ PlugSerialize
    \/ PlugWrite
    \/ PlugWaitWithOutput
    \/ PlugParseMerge
    \/ PlugReturn

SpecPlugin == PlugInit /\ [][PlugNext]_vars

(* ---------------------- one stack, layer by layer --------------------- *)

\* The evaluation of a stack of layers over a molecule.  rev tells whose layers
\* they are: "core" for Stack::read of core/src/lib.rs, which folds
\* Layer::filter over the base, "data_manager" for the chain of
\* Stack::overlay of data_manager.rs, which applies Layer::read of each layer
\* to the cached molecule of the stack below it.

CoreLayerInputs ==
    {Fill(EmptyMolecule), Fill(MolC), Fill(MolPatch), RemoveElement(1), RemoveElement(6),
     ReplaceElement(1, 6), IgnoreBonds, Transform(IdentityT), Transform(TranslateX),
     Transform(RotateZ), PluginFilter("missing_binary", <<>>)}
DmLayerInputs ==
    {Transparent, DmFill(MolTomb), HideBonds, Translate(<<1, 0, 0>>),
     Rotation(<< <<0, -1, 0>>, <<1, 0, 0>>, <<0, 0, 1>> >>, <<1, 0, 0>>)}
CoreBaseInputs == {EmptyMolecule, MolH, MolBase, MolPatch}
DmBaseInputs == {EmptyMolecule, MolBase, MolTomb}

\* the sequences of at most n elements of S
SeqsUpTo(S, n) == UNION {[1 .. k -> S] : k \in 0 .. n}

NoLayer == [tag |-> "none"]

EvalBegin ==
    /\ eval = NoEval
    /\ \/ \E layers \in SeqsUpTo(CoreLayerInputs, MaxLayers), b \in CoreBaseInputs :
              eval' = [pc |-> "fold", rev |-> "core", layers |-> layers, base |-> b,
                       pos |-> 1, container |-> b, low |-> b, applied |-> NoLayer,
                       res |-> None]
       \/ \E layers \in SeqsUpTo(DmLayerInputs, MaxLayers), b \in DmBaseInputs :
              eval' = [pc |-> "fold", rev |-> "data_manager", layers |-> layers, base |-> b,
                       pos |-> 1, container |-> b, low |-> b, applied |-> NoLayer,
                       res |-> None]
    /\ UNCHANGED <<wsVars, srvVars, child, dh, store, storeLock, task, utilVars>>

\* a fold that takes the layers from the top of the stack downwards
AppliedTopDown(e) ==
    IF e.rev = "core"
    THEN LayerFilter(e.layers[Len(e.layers) + 1 - e.pos], e.container).res
    ELSE DmLayerRead(e.layers[Len(e.layers) + 1 - e.pos], e.container)

\* the result of the layer at pos on the molecule below it
Applied(e) ==
    IF e.rev = "core"
    THEN LayerFilter(e.layers[e.pos], e.container).res
    ELSE DmLayerRead(e.layers[e.pos], e.container)

\* container = layer.filter(container)?  (Stack::read), and
\* cached = config.read(&base.cached).await?  (Stack::overlay)
EvalLayer ==
    /\ eval.pc = "fold"
    /\ eval.pos <= Len(eval.layers)
    /\ LET r == Applied(eval) IN
       IF IsOk(r)
       THEN eval' = [eval EXCEPT !.pos = @ + 1, !.container = r.val,
                                 !.low = eval.container, !.applied = eval.layers[eval.pos]]
       ELSE eval' = [eval EXCEPT !.pc = "done", !.res = r]
    /\ UNCHANGED <<wsVars, srvVars, child, dh, store, storeLock, task, utilVars>>

\* Ok(container) after the last layer
EvalReturn ==
    /\ eval.pc = "fold"
    /\ eval.pos > Len(eval.layers)
    /\ eval' = [eval EXCEPT !.pc = "done", !.res = Ok(eval.container)]
    /\ UNCHANGED <<wsVars, srvVars, child, dh, store, storeLock, task, utilVars>>

\* the caller has the result
EvalDrop ==
    /\ eval.pc = "done"
    /\ eval' = NoEval
    /\ UNCHANGED <<wsVars, srvVars, child, dh, store, storeLock, task, utilVars>>

LayerInit == WsQuiet /\ PlugQuiet /\ EvalQuiet /\ TreeQuiet /\ StoreQuiet /\ UtilQuiet

LayerNext ==
    \/ EvalBegin
    \/ EvalLayer
    \/ EvalReturn
    \/ EvalDrop

SpecLayer == LayerInit /\ [][LayerNext]_vars

(* ------------------ StackTree::dehydration, stack by stack ------------ *)

TreeLayerInputs == {IgnoreBonds, RemoveElement(1), RemoveElement(6)}

\* the i-th stack of a list, holding the layers vals, each in an Arc of its own
StackOfVals(vals, i) ==
    ArcStack(i, [j \in 1 .. Len(vals) |-> ArcLayer((i - 1) * MaxLayers + j, vals[j])])

\* let mut trees = vec![]; on the stacks handed in
TreeBegin ==
    /\ dh = NoDh
    /\ \E vs \in SeqsUpTo(SeqsUpTo(TreeLayerInputs, MaxLayers), MaxTreeStacks) :
          dh' = [pc |-> "loop",
                 stks |-> [i \in 1 .. Len(vs) |-> StackOfVals(vs[i], i)],
                 idx |-> 0, trees |-> <<>>]
    /\ UNCHANGED <<wsVars, srvVars, child, eval, store, storeLock, task, utilVars>>

\* one turn of for (idx, stack) in stacks.into_iter().enumerate()
TreeStep ==
    /\ dh.pc = "loop"
    /\ dh.idx < Len(dh.stks)
    /\ LET r == DehydrationStep(dh.stks, dh.idx, dh.trees) IN
       IF IsPanic(r)
       THEN dh' = [dh EXCEPT !.pc = "panicked"]
       ELSE dh' = [dh EXCEPT !.idx = @ + 1, !.trees = r.trees]
    /\ UNCHANGED <<wsVars, srvVars, child, eval, store, storeLock, task, utilVars>>

\* the loop is over and trees is returned
TreeReturn ==
    /\ dh.pc = "loop"
    /\ dh.idx = Len(dh.stks)
    /\ dh' = [dh EXCEPT !.pc = "done"]
    /\ UNCHANGED <<wsVars, srvVars, child, eval, store, storeLock, task, utilVars>>

\* the caller has the forest, or the panic has unwound
TreeDrop ==
    /\ dh.pc \in {"done", "panicked"}
    /\ dh' = NoDh
    /\ UNCHANGED <<wsVars, srvVars, child, eval, store, storeLock, task, utilVars>>

TreeInit == WsQuiet /\ PlugQuiet /\ EvalQuiet /\ TreeQuiet /\ StoreQuiet /\ UtilQuiet

TreeNext ==
    \/ TreeBegin
    \/ TreeStep
    \/ TreeReturn
    \/ TreeDrop

SpecTree == TreeInit /\ [][TreeNext]_vars

(* ------------------------- the unordered pair ------------------------- *)

\* utils::Pair<T>(T, T), a tuple struct
Pair(a, b) == [fst |-> a, snd |-> b]

\* impl From<[T; 2]> for Pair<T>: value.sort(); Self(a, b)
PairFromArray(a, b) == IF a <= b THEN Pair(a, b) ELSE Pair(b, a)

\* impl From<(T, T)> for Pair<T>
PairFromTuple(a, b) == PairFromArray(a, b)

\* impl Add<T> for Pair<T>, on Pair<usize>: Panic when the sum overflows in a
\* build with overflow checks, the wrapped sums without them
PairAdd(p, rhs, checks) ==
    IF checks /\ (p.fst + rhs >= USIZE \/ p.snd + rhs >= USIZE)
    THEN Panic
    ELSE PairFromTuple((p.fst + rhs) % USIZE, (p.snd + rhs) % USIZE)

\* #[derive(Deserialize)] on the tuple struct: the two elements of the
\* sequence on the wire become the two fields, in the order they came
PairDeserialize(wire) == Pair(wire[1], wire[2])

\* #[derive(PartialEq)] on utils::Pair: field by field
PairEq(p, q) == p.fst = q.fst /\ p.snd = q.snd

\* impl Hash for utils::Pair: what the hasher is fed, a then b
PairHash(p) == <<p.fst, p.snd>>

\* layer::Pair::new of src/src/lib.rs
LayerPairNew(a, b) == Pair(a, b)

\* impl PartialEq for layer::Pair
LayerPairEq(p, q) ==
    \/ (p.fst = q.fst /\ p.snd = q.snd)
    \/ (p.snd = q.fst /\ p.fst = q.snd)

\* impl Hash for layer::Pair: the two values sorted, then fed to the hasher
LayerPairHash(p) == IF p.fst <= p.snd THEN <<p.fst, p.snd>> ELSE <<p.snd, p.fst>>

PairInputs == {0, 1, 2, 3, USIZE - 1}
OffsetInputs == {0, 1}
PairWays == {"from_tuple", "from_array", "add", "deserialize", "new"}

\* the pair the given way builds from (a, b); for "add" the pair of
\* (a, b) shifted by rhs
PairBuilt(way, a, b, rhs, checks) ==
    CASE way = "from_tuple" -> PairFromTuple(a, b)
      [] way = "from_array" -> PairFromArray(a, b)
      [] way = "add" -> PairAdd(PairFromTuple(a, b), rhs, checks)
      [] way = "deserialize" -> PairDeserialize(<<a, b>>)
      [] way = "new" -> LayerPairNew(a, b)

\* a caller builds the pair of (a, b) and the pair of (b, a) the same way,
\* compares them and hashes them
PairCall ==
    /\ calc = NoCalc
    /\ \E way \in PairWays, a \in PairInputs, b \in PairInputs :
       \E rhs \in (IF way = "add" THEN OffsetInputs ELSE {0}) :
       \E checks \in (IF way = "add" THEN BOOLEAN ELSE {FALSE}) :
          LET ab == PairBuilt(way, a, b, rhs, checks)
              ba == PairBuilt(way, b, a, rhs, checks)
          IN  calc' =
                IF IsPanic(ab) \/ IsPanic(ba)
                THEN [pc |-> "panicked", fn |-> "pair", way |-> way, a |-> a, b |-> b,
                      rhs |-> rhs]
                ELSE [pc |-> "done", fn |-> "pair", way |-> way, a |-> a, b |-> b,
                      rhs |-> rhs,
                      ab |-> ab, ba |-> ba,
                      eq |-> IF way = "new" THEN LayerPairEq(ab, ba) ELSE PairEq(ab, ba),
                      hab |-> IF way = "new" THEN LayerPairHash(ab) ELSE PairHash(ab),
                      hba |-> IF way = "new" THEN LayerPairHash(ba) ELSE PairHash(ba)]
    /\ UNCHANGED <<wsVars, srvVars, child, eval, dh, store, storeLock, task, uvm, dm>>

\* the caller has the result
CalcDrop ==
    /\ calc # NoCalc
    /\ calc' = NoCalc
    /\ UNCHANGED <<wsVars, srvVars, child, eval, dh, store, storeLock, task, uvm, dm>>

UtilInit == WsQuiet /\ PlugQuiet /\ EvalQuiet /\ TreeQuiet /\ StoreQuiet /\ UtilQuiet

PairNext ==
    \/ PairCall
    \/ CalcDrop

SpecPair == UtilInit /\ [][PairNext]_vars

(* -------------------- the workspace of data_manager.rs ---------------- *)

\* The Workspace is a clonable handle on Arc<RwLock<Vec<Arc<Stack>>>>; every
\* handler task works on its own clone, and each section a call runs under
\* one guard of the RwLock is one step here.  dm.changes counts the writes to
\* the vector; a task remembers the count it began at and, for its own write,
\* the vector before and after.

\* {2: C}
MolC2 == Molecule((2 :> Some(AtomC)), EmptyMap, {})

DmIdxInputs == 0 .. 1
DmIndexesInputs == {<<0>>, <<1>>, <<0, 1>>}
DmPatchInputs == {MolH, MolC2}
DmOverlayInputs == {DmFill(EmptyMolecule), HideBonds, HideHydrogens}
DmTreeInputs ==
    {LayerTree(Transparent, <<0>>, <<LayerTree(DmFill(MolH), <<1>>, <<>>)>>),
     LayerTree(DmFill(MolH), <<0>>, <<>>),
     LayerTree(DmFill(MolTomb), <<>>, <<LayerTree(HideBonds, <<0>>, <<>>)>>)}

DmIdle == [pc |-> "idle"]

\* Workspace::new
DmNew ==
    /\ dm = NoDm
    /\ dm' = [pc |-> "live", stacks |-> <<DefaultStack>>, tasks |-> [c \in Clients |-> DmIdle],
              calls |-> 0, changes |-> 0]
    /\ UNCHANGED <<wsVars, srvVars, child, eval, dh, store, storeLock, task, calc, uvm>>

\* create_workspace with a load: layer_tree.to_stack(None), the stacks in the
\* order of their indexes, Workspace::from
DmImport ==
    /\ dm = NoDm
    /\ \E tree \in DmTreeInputs :
          LET r == ToStack(tree, None) IN
          /\ ~IsPanic(r)
          /\ IsOk(r)
          /\ LET sorted == SortedKeys(DOMAIN r.val) IN
             dm' = [pc |-> "live", stacks |-> [i \in 1 .. Len(sorted) |-> r.val[sorted[i]]],
                    tasks |-> [c \in Clients |-> DmIdle], calls |-> 0, changes |-> 0]
    /\ UNCHANGED <<wsVars, srvVars, child, eval, dh, store, storeLock, task, calc, uvm>>

\* a handler task may begin a call
DmCanBegin(c) ==
    /\ dm.pc = "live"
    /\ dm.tasks[c] = DmIdle
    /\ dm.calls < MaxDmCalls

\* the task of c goes to t
DmGoes(c, t) ==
    dm' = [dm EXCEPT !.tasks[c] = t, !.calls = IF dm.tasks[c] = DmIdle THEN @ + 1 ELSE @]

\* the task of c goes to t and the vector becomes stks
DmWrites(c, t, stks) ==
    dm' = [dm EXCEPT !.tasks[c] = t @@ [pre |-> dm.stacks, post |-> stks],
                     !.stacks = stks,
                     !.changes = @ + 1,
                     !.calls = IF dm.tasks[c] = DmIdle THEN @ + 1 ELSE @]

\* write_to_layer: self.get_stack(idx).await?
DmWriteGet(c) ==
    /\ DmCanBegin(c)
    /\ \E idx \in DmIdxInputs, patch \in DmPatchInputs :
          LET call == [op |-> "write_to_layer", idx |-> idx, patch |-> patch,
                       began |-> dm.changes]
          IN  IF idx < Len(dm.stacks)
              THEN DmGoes(c, call @@ [pc |-> "got", stack |-> dm.stacks[idx + 1]])
              ELSE DmGoes(c, call @@ [pc |-> "done", res |-> Err(NoSuchStack)])
    /\ UNCHANGED <<wsVars, srvVars, child, eval, dh, store, storeLock, task, calc, uvm>>

\* write_to_layer: the clone, updated.write(patch).await? and
\* self.update_stack(idx, Arc::new(updated)).await
DmWriteUpdate(c) ==
    /\ dm.pc = "live"
    /\ dm.tasks[c].pc = "got"
    /\ dm.tasks[c].op = "write_to_layer"
    /\ LET t == dm.tasks[c]
           updated == DmStackWrite(t.stack, t.patch)
       IN  IF ~IsOk(updated)
           THEN DmGoes(c, [t EXCEPT !.pc = "done"] @@ [res |-> updated])
           ELSE IF t.idx < Len(dm.stacks)
           THEN DmWrites(c, [t EXCEPT !.pc = "done"] @@ [res |-> Ok("unit")],
                         [dm.stacks EXCEPT ![t.idx + 1] = updated.val])
           ELSE DmGoes(c, [t EXCEPT !.pc = "done"] @@ [res |-> Err(NoSuchStack)])
    /\ UNCHANGED <<wsVars, srvVars, child, eval, dh, store, storeLock, task, calc, uvm>>

\* overlay_to: self.get_stacks(indexes).await?, then the overlays, join_all and
\* the collect into patches, all on the task's own data
DmOverlayGet(c) ==
    /\ DmCanBegin(c)
    /\ \E indexes \in DmIndexesInputs, config \in DmOverlayInputs :
          LET call == [op |-> "overlay_to", indexes |-> indexes, config |-> config,
                       began |-> dm.changes]
              wanted == {indexes[k] : k \in 1 .. Len(indexes)}
          IN  IF \E idx \in wanted : Len(dm.stacks) <= idx
              THEN DmGoes(c, call @@ [pc |-> "done", res |-> Err(NoSuchStack)])
              ELSE LET over == [idx \in wanted |->
                                   StackOverlay(Some(dm.stacks[idx + 1]), config)]
                   IN  IF \E idx \in wanted : IsPanic(over[idx])
                       THEN DmGoes(c, call @@ [pc |-> "aborted"])
                       ELSE DmGoes(c, call @@ [pc |-> "patched",
                                               got |-> [idx \in wanted |-> dm.stacks[idx + 1]],
                                               patches |-> [idx \in wanted |-> over[idx].val]])
    /\ UNCHANGED <<wsVars, srvVars, child, eval, dh, store, storeLock, task, calc, uvm>>

\* update_stacks: the length read under the read guard and the bounds check
DmOverlayCheck(c) ==
    /\ dm.pc = "live"
    /\ dm.tasks[c].pc = "patched"
    /\ LET t == dm.tasks[c] IN
       IF \E idx \in DOMAIN t.patches : Len(dm.stacks) <= idx
       THEN DmGoes(c, [pc |-> "done", op |-> t.op, indexes |-> t.indexes, config |-> t.config,
                       began |-> t.began, res |-> Err(NoSuchStack)])
       ELSE DmGoes(c, [t EXCEPT !.pc = "checked"])
    /\ UNCHANGED <<wsVars, srvVars, child, eval, dh, store, storeLock, task, calc, uvm>>

\* update_stacks: under the write guard, *stacks.get_mut(*idx).unwrap() =
\* stack.clone() for every patch.  When an index is out of the vector by now
\* unwrap() panics, after the patches the HashMap gave before it were stored.
DmOverlayCommit(c) ==
    /\ dm.pc = "live"
    /\ dm.tasks[c].pc = "checked"
    /\ LET t == dm.tasks[c]
           inside == {idx \in DOMAIN t.patches : idx < Len(dm.stacks)}
           Stored(W) == [i \in 1 .. Len(dm.stacks) |->
                            IF (i - 1) \in W THEN t.patches[i - 1] ELSE dm.stacks[i]]
       IN  IF inside = DOMAIN t.patches
           THEN DmWrites(c, [t EXCEPT !.pc = "done"] @@ [res |-> Ok("unit")], Stored(inside))
           ELSE \E W \in SUBSET inside : DmWrites(c, [t EXCEPT !.pc = "aborted"], Stored(W))
    /\ UNCHANGED <<wsVars, srvVars, child, eval, dh, store, storeLock, task, calc, uvm>>

\* new_empty_stack
DmNewEmptyStack(c) ==
    /\ DmCanBegin(c)
    /\ Len(dm.stacks) < MaxDmStacks
    /\ DmWrites(c, [pc |-> "done", op |-> "new_empty_stack", began |-> dm.changes,
                    res |-> Ok("unit")],
                Append(dm.stacks, DefaultStack))
    /\ UNCHANGED <<wsVars, srvVars, child, eval, dh, store, storeLock, task, calc, uvm>>

\* remove_stack: Vec::remove panics on an index out of the vector
DmRemoveStack(c) ==
    /\ DmCanBegin(c)
    /\ \E idx \in DmIdxInputs :
          LET call == [op |-> "remove_stack", idx |-> idx, began |-> dm.changes] IN
          IF idx < Len(dm.stacks)
          THEN DmWrites(c, call @@ [pc |-> "done", res |-> Ok("unit")],
                        SubSeq(dm.stacks, 1, idx) \o SubSeq(dm.stacks, idx + 2, Len(dm.stacks)))
          ELSE DmGoes(c, call @@ [pc |-> "aborted"])
    /\ UNCHANGED <<wsVars, srvVars, child, eval, dh, store, storeLock, task, calc, uvm>>

\* the handler of c has answered, or its task has unwound
DmReturn(c) ==
    /\ dm.pc = "live"
    /\ dm.tasks[c].pc \in {"done", "aborted"}
    /\ dm' = [dm EXCEPT !.tasks[c] = DmIdle]
    /\ UNCHANGED <<wsVars, srvVars, child, eval, dh, store, storeLock, task, calc, uvm>>

DmNext ==
    \/ DmNew
    \/ DmImport
    \/ \E c \in Clients :
          \/ DmWriteGet(c)
          \/ DmWriteUpdate(c)
          \/ DmOverlayGet(c)
          \/ DmOverlayCheck(c)
          \/ DmOverlayCommit(c)
          \/ DmNewEmptyStack(c)
          \/ DmRemoveStack(c)
          \/ DmReturn(c)

SpecDm == UtilInit /\ [][DmNext]_vars

(* ---------------------------- clean_molecule -------------------------- *)

\* A BondGraph is held as the sequence of its (key, value) entries: indexes[i]
\* is entry i's key, a Pair, and values[i] its value, an Option<f64>.
BondEntry(key, value) == [key |-> key, value |-> value]

\* the order of a.cmp(b) on two pair keys: first fields, then second fields
PairLeq(p, q) == p.fst < q.fst \/ (p.fst = q.fst /\ p.snd <= q.snd)

RECURSIVE SortBonds(_)
\* bonds.sort_by(|(a, _), (b, _)| a.cmp(b)), on entries with different keys
SortBonds(bonds) ==
    IF Len(bonds) = 0 THEN <<>>
    ELSE LET i == CHOOSE x \in 1 .. Len(bonds) :
                      \A y \in 1 .. Len(bonds) : PairLeq(bonds[x].key, bonds[y].key)
         IN  <<bonds[i]>> \o
             SortBonds(SubSeq(bonds, 1, i - 1) \o SubSeq(bonds, i + 1, Len(bonds)))

\* clean_molecule((atoms, bonds)): (atoms, bonds_idxs, bonds_values); order is
\* the order in which par_bridge() delivers the sorted bonds.  New indices
\* count from 0: the atom with new index i is atoms[i + 1].
CleanMolecule(atoms, bonds, order) ==
    LET sorted == SortedKeys(PresentIdxs(atoms))
        idx_map == [old \in PresentIdxs(atoms) |->
                       (CHOOSE i \in 1 .. Len(sorted) : sorted[i] = old) - 1]
        arrived == ParBridgeCollect(SortBonds(bonds), order)
        Kept(e) == /\ IsSome(e.value)
                   /\ e.key.fst \in DOMAIN idx_map
                   /\ e.key.snd \in DOMAIN idx_map
        kept == SelectSeq(arrived, Kept)
    IN  [atoms |-> [i \in 1 .. Len(sorted) |-> atoms[sorted[i]].val],
         bonds_idxs |-> [i \in 1 .. Len(kept) |->
                            PairFromTuple(idx_map[kept[i].key.fst], idx_map[kept[i].key.snd])],
         bonds_values |-> [i \in 1 .. Len(kept) |-> kept[i].value.val]]

\* the atom tables over the indices 0..2 and a fourth index that is no key
CleanAtomInputs == [0 .. 2 -> {None, Some(AtomH), Some(AtomC)}]
\* the bond graphs: the entries of one list, any of them left out
CleanBondList ==
    << BondEntry(Pair(1, 2), Some(2)), BondEntry(Pair(0, 1), Some(1)),
       BondEntry(Pair(0, 2), None), BondEntry(Pair(2, 3), Some(1)) >>
CleanBondInputs ==
    {SelectSeq(CleanBondList, LAMBDA e : e \in chosen) :
        chosen \in SUBSET {CleanBondList[i] : i \in 1 .. Len(CleanBondList)}}

\* clean_molecule is called twice with the same molecule
CleanCall ==
    /\ calc = NoCalc
    /\ \E atoms \in CleanAtomInputs, bonds \in CleanBondInputs :
       \E order1 \in ParBridgeOrders(Len(bonds)), order2 \in ParBridgeOrders(Len(bonds)) :
          calc' = [pc |-> "done", fn |-> "clean_molecule", atoms |-> atoms, bonds |-> bonds,
                   first |-> CleanMolecule(atoms, bonds, order1),
                   second |-> CleanMolecule(atoms, bonds, order2)]
    /\ UNCHANGED <<wsVars, srvVars, child, eval, dh, store, storeLock, task, uvm, dm>>

CleanNext ==
    \/ CleanCall
    \/ CalcDrop

SpecClean == UtilInit /\ [][CleanNext]_vars

(* --------------------------- UniqueValueMap --------------------------- *)

\* A UniqueValueMap is [map, validate]: the HashMap<K, V> and the HashSet<V>.
Updated(v) == [tag |-> "Updated", val |-> v]
Duplicated(k) == [tag |-> "Duplicated", key |-> k]
Created == [tag |-> "Created"]

\* the values a HashMap holds
Values(map) == {map[k] : k \in DOMAIN map}

\* UniqueValueMap::new
UvmNew == [map |-> EmptyMap, validate |-> {}]

\* UniqueValueMap::from_map
UvmFromMap(map) ==
    LET validate == Values(map) IN
    IF Cardinality(validate) = Cardinality(DOMAIN map)
    THEN Ok([map |-> map, validate |-> validate])
    ELSE Err(map)

\* an insert that does not look the value up
UvmInsertUnchecked(m, k, v) ==
    {[m |-> [map |-> (k :> v) @@ m.map, validate |-> m.validate \cup {v}],
      res |-> IF k \in DOMAIN m.map THEN Updated(m.map[k]) ELSE Created]}

\* UniqueValueMap::insert: the outcomes [m, res] the call can have, one for
\* each key that find_map may come upon first; Panic where unwrap() finds None
UvmInsert(m, k, v) ==
    IF v \in m.validate
    THEN IF \E key \in DOMAIN m.map : m.map[key] = v
         THEN {[m |-> m, res |-> Duplicated(key)] : key \in {x \in DOMAIN m.map : m.map[x] = v}}
         ELSE {Panic}
    ELSE IF k \in DOMAIN m.map
         THEN {[m |-> [map |-> (k :> v) @@ m.map,
                       validate |-> (m.validate \cup {v}) \ {m.map[k]}],
                res |-> Updated(m.map[k])]}
         ELSE {[m |-> [map |-> (k :> v) @@ m.map, validate |-> m.validate \cup {v}],
                res |-> Created]}

\* a remove that leaves the validate set alone
UvmRemoveKeepsValue(m, k) ==
    IF k \in DOMAIN m.map
    THEN [m |-> [map |-> [x \in (DOMAIN m.map) \ {k} |-> m.map[x]], validate |-> m.validate],
          res |-> Some(m.map[k])]
    ELSE [m |-> m, res |-> None]

\* UniqueValueMap::remove
UvmRemove(m, k) ==
    IF k \in DOMAIN m.map
    THEN [m |-> [map |-> [x \in (DOMAIN m.map) \ {k} |-> m.map[x]],
                 validate |-> m.validate \ {m.map[k]}],
          res |-> Some(m.map[k])]
    ELSE [m |-> m, res |-> None]

UvmKeys == {"center", "entry", "exit"}
UvmValues == {1, 2, 3}
\* the maps handed to from_map
UvmMaps == UNION {[D -> UvmValues] : D \in SUBSET UvmKeys}

\* let mut map = UniqueValueMap::new()
UvmCreate ==
    /\ uvm = NoUvm
    /\ uvm' = [pc |-> "live", m |-> UvmNew, origin |-> "new", last |-> Idle]
    /\ UNCHANGED <<wsVars, srvVars, child, eval, dh, store, storeLock, task, calc, dm>>

\* UniqueValueMap::from_map(map): the map is used when it is Ok
UvmLoad ==
    /\ uvm = NoUvm
    /\ \E map \in UvmMaps :
          LET r == UvmFromMap(map) IN
          uvm' = IF IsOk(r)
                 THEN [pc |-> "live", m |-> r.val, origin |-> "from_map", last |-> Idle]
                 ELSE [pc |-> "rejected", given |-> map]
    /\ UNCHANGED <<wsVars, srvVars, child, eval, dh, store, storeLock, task, calc, dm>>

\* map.insert(k, v)
UvmInsertCall ==
    /\ uvm.pc = "live"
    /\ \E k \in UvmKeys, v \in UvmValues : \E r \in UvmInsert(uvm.m, k, v) :
          uvm' = IF IsPanic(r)
                 THEN [pc |-> "panicked"]
                 ELSE [uvm EXCEPT !.m = r.m,
                                  !.last = [op |-> "insert", k |-> k, v |-> v,
                                            pre |-> uvm.m, res |-> r.res]]
    /\ UNCHANGED <<wsVars, srvVars, child, eval, dh, store, storeLock, task, calc, dm>>

\* map.remove(&k)
UvmRemoveCall ==
    /\ uvm.pc = "live"
    /\ \E k \in UvmKeys :
          LET r == UvmRemove(uvm.m, k) IN
          uvm' = [uvm EXCEPT !.m = r.m,
                             !.last = [op |-> "remove", k |-> k, pre |-> uvm.m, res |-> r.res]]
    /\ UNCHANGED <<wsVars, srvVars, child, eval, dh, store, storeLock, task, calc, dm>>

\* the map is dropped
UvmDrop ==
    /\ uvm # NoUvm
    /\ uvm' = NoUvm
    /\ UNCHANGED <<wsVars, srvVars, child, eval, dh, store, storeLock, task, calc, dm>>

UvmNext ==
    \/ UvmCreate
    \/ UvmLoad
    \/ UvmInsertCall
    \/ UvmRemoveCall
    \/ UvmDrop

SpecUvm == UtilInit /\ [][UvmNext]_vars

(* ----------------------------- server store --------------------------- *)

\* The store maps a workspace name to a workspace behind a tokio RwLock.  A
\* stored workspace is [id, base]: id stands for the address of its Arc and is
\* the number of the request that made it.  Here ops counts the requests.
\* Two revisions of the handlers exist: src/src/handler.rs (state_handler)
\* takes the write guard for the whole of create_workspace; in
\* src/src/handler/server.rs create_workspace looks the name up under a read
\* guard, lets that guard go and takes the write guard only to insert.

StoreBaseInputs == {EmptyMolecule, MolBase}

StoreArrive(c, t) ==
    /\ task[c] = IdleReq
    /\ ops < MaxOps
    /\ ops' = ops + 1
    /\ task' = [task EXCEPT ![c] = t @@ [id |-> ops + 1]]
    /\ UNCHANGED <<base, stacks, last, srvVars, child, eval, dh, store, storeLock, utilVars>>

\* handler.rs create_workspace is called and reaches state.write().await
StateArriveCreate(c) ==
    \E ws \in WorkspaceNames, b \in StoreBaseInputs :
        StoreArrive(c, [pc |-> "wait_write", kind |-> "create", ws |-> ws, base |-> b])

\* handler/server.rs create_workspace is called and reaches store.read().await
StoreArriveCreate(c) ==
    \E ws \in WorkspaceNames :
        StoreArrive(c, [pc |-> "wait_read", kind |-> "create", ws |-> ws,
                        base |-> EmptyMolecule])

\* remove_workspace (either revision) is called and reaches write().await
StoreArriveRemove(c) ==
    \E ws \in WorkspaceNames :
        StoreArrive(c, [pc |-> "wait_write", kind |-> "remove", ws |-> ws])

\* RwLock::write().await returns the guard: no other guard is alive
StoreWriteLock(c) ==
    /\ task[c].pc = "wait_write"
    /\ storeLock = RwFree
    /\ storeLock' = [storeLock EXCEPT !.writer = c]
    /\ task' = [task EXCEPT ![c].pc = "writing"]
    /\ UNCHANGED <<wsVars, srvVars, child, eval, dh, store, utilVars>>

\* RwLock::read().await returns a guard: no write guard is alive
StoreReadLock(c) ==
    /\ task[c].pc = "wait_read"
    /\ storeLock.writer = NoHolder
    /\ storeLock' = [storeLock EXCEPT !.readers = @ \cup {c}]
    /\ task' = [task EXCEPT ![c].pc = "reading"]
    /\ UNCHANGED <<wsVars, srvVars, child, eval, dh, store, utilVars>>

\* the handler has its answer; found is the store entry it met under its
\* guard, left the entry it leaves there; the guard is dropped
Answer(c, status, found, left) ==
    /\ task' = [task EXCEPT ![c] = [@ EXCEPT !.pc = "done"] @@
                                   [status |-> status, found |-> found, left |-> left]]
    /\ storeLock' = [writer |-> NoHolder, readers |-> storeLock.readers \ {c}]

\* Arc::new(Mutex::new(Workspace::new(base))) / Workspace::new() of request c
Made(c) == Some([id |-> task[c].id, base |-> task[c].base])

\* handler.rs create_workspace under the write guard:
\* if state.contains_key(&ws) { CONFLICT } else { state.insert(..); OK }
StateCreate(c) ==
    /\ task[c].pc = "writing" /\ task[c].kind = "create"
    /\ IF IsSome(store[task[c].ws])
       THEN /\ Answer(c, "CONFLICT", store[task[c].ws], store[task[c].ws])
            /\ UNCHANGED store
       ELSE /\ Answer(c, "OK", store[task[c].ws], Made(c))
            /\ store' = [store EXCEPT ![task[c].ws] = Made(c)]
    /\ UNCHANGED <<wsVars, srvVars, child, eval, dh, utilVars>>

\* handler/server.rs create_workspace: if store.read().await.contains_key(&ws)
\* { Err(WorkspaceNameConflict) } else ..; the read guard is a temporary of the
\* condition and is dropped when the condition has been evaluated
StoreCheck(c) ==
    /\ task[c].pc = "reading" /\ task[c].kind = "create"
    /\ IF IsSome(store[task[c].ws])
       THEN Answer(c, "CONFLICT", store[task[c].ws], store[task[c].ws])
       ELSE /\ task' = [task EXCEPT ![c].pc = "wait_insert"]
            /\ storeLock' = [storeLock EXCEPT !.readers = @ \ {c}]
    /\ UNCHANGED <<wsVars, srvVars, child, eval, dh, store, utilVars>>

\* handler/server.rs create_workspace: store.write().await returns the guard
StoreInsertLock(c) ==
    /\ task[c].pc = "wait_insert"
    /\ storeLock = RwFree
    /\ storeLock' = [storeLock EXCEPT !.writer = c]
    /\ task' = [task EXCEPT ![c].pc = "writing_insert"]
    /\ UNCHANGED <<wsVars, srvVars, child, eval, dh, store, utilVars>>

\* handler/server.rs create_workspace: .insert(ws, Workspace::new()); Ok(())
StoreInsert(c) ==
    /\ task[c].pc = "writing_insert"
    /\ Answer(c, "OK", store[task[c].ws], Made(c))
    /\ store' = [store EXCEPT ![task[c].ws] = Made(c)]
    /\ UNCHANGED <<wsVars, srvVars, child, eval, dh, utilVars>>

\* remove_workspace under the write guard (both revisions):
\* if store.remove(&ws).is_some() { OK } else { NOT_FOUND / WorkspaceNotFound }
StoreRemove(c) ==
    /\ task[c].pc = "writing" /\ task[c].kind = "remove"
    /\ Answer(c, IF IsSome(store[task[c].ws]) THEN "OK" ELSE "NOT_FOUND",
              store[task[c].ws], None)
    /\ store' = [store EXCEPT ![task[c].ws] = None]
    /\ UNCHANGED <<wsVars, srvVars, child, eval, dh, utilVars>>

\* the response goes out
StoreReturn(c) ==
    /\ task[c].pc = "done"
    /\ task' = [task EXCEPT ![c] = IdleReq]
    /\ UNCHANGED <<wsVars, srvVars, child, eval, dh, store, storeLock, utilVars>>

StoreInit == WsQuiet /\ PlugQuiet /\ EvalQuiet /\ TreeQuiet /\ StoreQuiet /\ UtilQuiet

\* the server of src/src/handler.rs
StateNext ==
    \E c \in Clients :
        \/ StateArriveCreate(c)
        \/ StoreArriveRemove(c)
        \/ StoreWriteLock(c)
        \/ StateCreate(c)
        \/ StoreRemove(c)
        \/ StoreReturn(c)

SpecState == StoreInit /\ [][StateNext]_vars

\* the server of src/src/handler/server.rs
StoreNext ==
    \E c \in Clients :
        \/ StoreArriveCreate(c)
        \/ StoreArriveRemove(c)
        \/ StoreReadLock(c)
        \/ StoreCheck(c)
        \/ StoreInsertLock(c)
        \/ StoreInsert(c)
        \/ StoreWriteLock(c)
        \/ StoreRemove(c)
        \/ StoreReturn(c)

SpecStore == StoreInit /\ [][StoreNext]_vars

(* ------------------------ properties: workspace ----------------------- *)

\* the slots of [start, start + range) that exist among n slots
SlotsInRange(start, range, n) == {i \in 0 .. (n - 1) : start <= i /\ i < start + range}

IsBatch == last.op \in {"write_to_stack", "add_layer_to_stack"}

\* what the call being answered does to one stack, by value
BatchEdit(layers) ==
    IF last.op = "write_to_stack"
    THEN LayerVals(StackWrite(layers, last.data, 0))
    ELSE LayerVals(AddLayer(layers, last.layer))

\* C1: after a successful write_to_stack / add_layer_to_stack every slot of the
\* range holds the stack it held before with write(m) / add_layer(l) applied,
\* in whatever order the workers delivered their results.
C1_BatchEqualsSequential ==
    (IsBatch /\ last.ret = "true") =>
        \A i \in SlotsInRange(last.start, last.range, Len(last.pre)) :
            LayerVals(stacks[i + 1].layers) = BatchEdit(last.pre[i + 1].layers)

\* C2: hydration(dehydration(S)) completes and returns, index for index, stacks
\* with the same layer sequences as S, for every S the workspace holds,
\* stacks without layers included.
C2_RoundTrip ==
    last.op = "export" =>
        /\ ~IsPanic(last.ret)
        /\ Len(last.ret.stacks) = Len(stacks)
        /\ \A i \in 1 .. Len(stacks) : last.ret.stacks[i] = LayerVals(stacks[i].layers)

\* C3: a batch mutator changes no slot outside [start, start + range), and when
\* start + range exceeds the number of stacks it returns false and every slot
\* still holds its reference.
C3_FrameAndReject ==
    IsBatch =>
        /\ Len(stacks) = Len(last.pre)
        /\ \A i \in 0 .. (Len(last.pre) - 1) :
               i \notin SlotsInRange(last.start, last.range, Len(last.pre))
                   => stacks[i + 1] = last.pre[i + 1]
        /\ last.start + last.range > Len(last.pre)
               => (last.ret = "false" /\ stacks = last.pre)

\* the stack read was made of: the one stored at the index read
ReadLayers == stacks[last.index + 1].layers
IsStackRead == last.op = "read" /\ last.index < Len(stacks)

\* C4: a stack whose top layer is a PluginFilter running a program that echoes
\* its input reads to what the stack without that layer reads to.
C4_EchoPluginIsIdentity ==
    (/\ IsStackRead
     /\ Len(ReadLayers) > 0
     /\ ReadLayers[Len(ReadLayers)].val.tag = "PluginFilter"
     /\ PluginBehaviour(ReadLayers[Len(ReadLayers)].val.plugin) = "echo"
     /\ IsOk(StackRead(GetBase(ReadLayers), base).res))
        => last.ret.res = StackRead(GetBase(ReadLayers), base).res

RECURSIVE EvalTopDown(_, _)
\* the molecule a layer sequence stands for, defined from the top: the top
\* layer applied to what the layers below give, an error below being the result
EvalTopDown(vals, b) ==
    IF Len(vals) = 0 THEN Ok(b)
    ELSE LET below == EvalTopDown(SubSeq(vals, 1, Len(vals) - 1), b) IN
         IF IsOk(below) THEN LayerFilter(vals[Len(vals)], below.val).res ELSE below

\* C6: read(index) is NoSuchStack exactly when index >= stacks(); otherwise it
\* is the layers applied bottom-to-top to the base, so a stack without layers
\* and a stack whose only layer is Fill(empty) read the base.
C6_ReadSpec ==
    last.op = "read" =>
        /\ (last.ret.res = Err(NoSuchStack)) <=> (last.index >= Len(stacks))
        /\ last.index < Len(stacks) =>
              /\ last.ret.res = EvalTopDown(LayerVals(ReadLayers), base)
              /\ LayerVals(ReadLayers) \in {<<>>, <<Fill(EmptyMolecule)>>}
                    => last.ret.res = Ok(base)

C6_Witness ==
    /\ IsStackRead
    /\ LayerVals(ReadLayers) = <<Fill(EmptyMolecule)>>
    /\ last.ret.res = Ok(base)
    /\ base # EmptyMolecule

\* write(m) relates the layers before and after: a Fill top is replaced by
\* Fill(merge(cur, m)), otherwise Fill(m) is put on top; the layers below stay
WriteRelated(before, after, m) ==
    IF Len(before) > 0 /\ before[Len(before)].val.tag = "Fill"
    THEN /\ Len(after) = Len(before)
         /\ after[Len(after)].val = Fill(Merge(before[Len(before)].val.mol, m))
         /\ \A k \in 1 .. (Len(before) - 1) : after[k] = before[k]
    ELSE /\ Len(after) = Len(before) + 1
         /\ after[Len(after)].val = Fill(m)
         /\ \A k \in 1 .. Len(before) : after[k] = before[k]

\* C7: Stack.write(m) merges m into a Fill top, keeping the number of layers,
\* and otherwise adds one layer Fill(m); the lower layers are unchanged.  Seen
\* on single-slot write_to_stack calls, where the slot written is the slot read.
C7_StackWrite ==
    (last.op = "write_to_stack" /\ last.ret = "true" /\ last.range = 1) =>
        WriteRelated(last.pre[last.start + 1].layers, stacks[last.start + 1].layers, last.data)

C7_Witness ==
    /\ last.op = "write_to_stack" /\ last.ret = "true" /\ last.range = 1
    /\ Len(last.pre[last.start + 1].layers) = 2
    /\ last.pre[last.start + 1].layers[2].val = Fill(EmptyMolecule)
    /\ last.data = MolPatch
    /\ LayerVals(stacks[last.start + 1].layers)[2] = Fill(MolPatch)

\* the call appended copies + 1 slots that all hold the reference stack,
\* returned the old stack count and left the old slots in place
Appended(stack, copies, ret) ==
    /\ Len(stacks) = Len(last.pre) + copies + 1
    /\ \A i \in (Len(last.pre) + 1) .. Len(stacks) : stacks[i] = stack
    /\ \A i \in 1 .. Len(last.pre) : stacks[i] = last.pre[i]
    /\ ret = Len(last.pre)

\* C8: create_stack(stack, copies) appends copies + 1 slots pointer-equal to
\* the given reference and returns the old stack count; clone_stack(i, copies)
\* does so with the reference at slot i, and returns None and changes nothing
\* when i is out of range.
C8_CreateAndClone ==
    /\ last.op = "create_stack" => Appended(last.stack, last.copies, last.ret)
    /\ last.op = "clone_stack" =>
          IF last.stack_idx < Len(last.pre)
          THEN /\ IsSome(last.ret)
               /\ Appended(last.pre[last.stack_idx + 1], last.copies, last.ret.val)
          ELSE last.ret = None /\ stacks = last.pre

C8_Witness ==
    /\ last.op = "clone_stack"
    /\ IsSome(last.ret)
    /\ last.ret.val = 1
    /\ Len(stacks) = 2
    /\ Len(stacks[2].layers) > 0

\* C9: clone_base(i, copies) appends copies + 1 slots holding one new stack made
\* of the layer references of slot i without the topmost; the old slots stay;
\* out of range nothing changes.
C9_CloneBase ==
    last.op = "clone_base" =>
        IF last.stack_idx < Len(last.pre)
        THEN LET src == last.pre[last.stack_idx + 1].layers IN
             /\ IsSome(last.ret) /\ last.ret.val = Len(last.pre)
             /\ Len(stacks) = Len(last.pre) + last.copies + 1
             /\ \A i \in 1 .. Len(last.pre) : stacks[i] = last.pre[i]
             /\ \A i \in (Len(last.pre) + 1) .. Len(stacks) :
                   /\ stacks[i] = stacks[Len(last.pre) + 1]
                   /\ Len(stacks[i].layers) = (IF Len(src) = 0 THEN 0 ELSE Len(src) - 1)
                   /\ \A k \in 1 .. Len(stacks[i].layers) : stacks[i].layers[k] = src[k]
        ELSE last.ret = None /\ stacks = last.pre

C9_Witness ==
    /\ last.op = "clone_base"
    /\ IsSome(last.ret)
    /\ Len(last.pre[last.stack_idx + 1].layers) = 2
    /\ Len(stacks[Len(stacks)].layers) = 1
    /\ stacks[Len(stacks)].layers[1].ptr = last.pre[last.stack_idx + 1].layers[1].ptr

\* the first layer at which the evaluation of vals over b fails (0 if none)
FirstFailing(vals, b) ==
    IF \E k \in 1 .. Len(vals) : ~IsOk(EvalTopDown(SubSeq(vals, 1, k), b))
    THEN CHOOSE k \in 1 .. Len(vals) :
             /\ ~IsOk(EvalTopDown(SubSeq(vals, 1, k), b))
             /\ \A j \in 1 .. (k - 1) : IsOk(EvalTopDown(SubSeq(vals, 1, j), b))
    ELSE 0

PluginLayersUpTo(vals, k) == {j \in 1 .. k : vals[j].tag = "PluginFilter"}

\* C10: a read that fails returns the error of the first failing layer as that
\* layer gave it, and spawns a process for no PluginFilter layer above it.
C10_FailFast ==
    (IsStackRead /\ ~IsOk(last.ret.res)) =>
        LET vals == LayerVals(ReadLayers)
            k == FirstFailing(vals, base)
        IN  /\ k > 0
            /\ last.ret.res =
                  LayerFilter(vals[k], EvalTopDown(SubSeq(vals, 1, k - 1), base).val).res
            /\ Len(last.ret.spawned) = Cardinality(PluginLayersUpTo(vals, k))
            /\ \A j \in 1 .. Len(last.ret.spawned) :
                  \E i \in PluginLayersUpTo(vals, k) :
                      /\ last.ret.spawned[j].plugin = vals[i].plugin
                      /\ last.ret.spawned[j].args = vals[i].args

C10_Witness ==
    /\ IsStackRead
    /\ ~IsOk(last.ret.res)
    /\ Len(ReadLayers) = 2
    /\ ReadLayers[1].val.tag = "PluginFilter"
    /\ ReadLayers[2].val = PluginFilter("echo", <<>>)
    /\ last.ret.spawned = <<[plugin |-> "missing_binary", args |-> <<>>]>>

\* C15: for every start and range, range 0 and an empty workspace included,
\* write_to_stack and add_layer_to_stack return false exactly when start + range
\* is greater than the number of stacks and true otherwise, as a returned
\* value: the call does not abort and start + range - 1 does not wrap.
C15_RangeCheckExact ==
    IsBatch =>
        last.ret = (IF last.start + last.range > Len(last.pre) THEN "false" ELSE "true")

\* C11: a read, whether it succeeds or fails with a PluginLayerError, changes
\* neither the base molecule nor any stored stack: every slot holds the same
\* reference with the same layers after the read as before it.
C11_ReadChangesNothing ==
    [][last'.op = "read" => (base' = base /\ stacks' = stacks)]_vars

C11_Witness ==
    /\ IsStackRead
    /\ ~IsOk(last.ret.res)
    /\ last.ret.res.err.kind = "PluginLayerError"
    /\ last.ret.res.err.code = -1
    /\ stacks = last.pre

(* ---------------------- properties: shared layers --------------------- *)

\* the layers after hold, below the top, the Arc<Layer> references of the
\* layers before: all of them under a new top, or all but the replaced top
SharesBelowTop(before, after) ==
    \/ (Len(after) = Len(before) + 1 /\ SubSeq(after, 1, Len(before)) = before)
    \/ /\ Len(after) = Len(before)
       /\ Len(before) > 0
       /\ SubSeq(after, 1, Len(after) - 1) = SubSeq(before, 1, Len(before) - 1)

\* C25: no mutator changes a layer in place: after write_to_stack or
\* add_layer_to_stack every stack outside the range holds the layers it held
\* and reads to the same molecule, and every stack of the range holds, below
\* its top, the layer references of the stack that was at its index before.
C25_NoLayerChangedInPlace ==
    (IsBatch /\ last.ret = "true") =>
        /\ \A i \in 0 .. (Len(last.pre) - 1) :
              i \notin SlotsInRange(last.start, last.range, Len(last.pre)) =>
                  /\ stacks[i + 1].layers = last.pre[i + 1].layers
                  /\ WorkspaceRead(base, stacks, i).res = WorkspaceRead(base, last.pre, i).res
        /\ \A i \in SlotsInRange(last.start, last.range, Len(last.pre)) :
              SharesBelowTop(last.pre[i + 1].layers, stacks[i + 1].layers)

\* C27: after a successful write_to_stack(start, range, m) every index of the
\* range whose read succeeded before the call reads to merge(what it read
\* before, m), the edit folded into a top Fill layer or added as a new one.
C27_ReadAfterWrite ==
    (last.op = "write_to_stack" /\ last.ret = "true") =>
        \A i \in SlotsInRange(last.start, last.range, Len(last.pre)) :
            IsOk(WorkspaceRead(base, last.pre, i).res) =>
                WorkspaceRead(base, stacks, i).res =
                    Ok(Merge(WorkspaceRead(base, last.pre, i).res.val, last.data))

(* ------------- properties: the workspace of data_manager.rs ----------- *)

RECURSIVE Reevaluated(_)
\* the layers of the stack read one after the other from the bottom, over the
\* empty molecule
Reevaluated(stack) ==
    LET below == IF IsSome(stack.base) THEN Reevaluated(stack.base.val) ELSE Ok(EmptyMolecule)
    IN  IF IsPanic(below) \/ ~IsOk(below) THEN below ELSE DmLayerRead(stack.config, below.val)

\* C26: the cached molecule of every stack, which is what read returns, is
\* what its layers give when they are evaluated again from the bottom over the
\* empty molecule: after Stack::overlay, after Stack::write and for the stacks
\* that to_stack(None) builds from a LayerTree, whatever the root's layer.
C26_CacheIsEvaluation ==
    dm.pc = "live" =>
        \A i \in 1 .. Len(dm.stacks) : Ok(dm.stacks[i].cached) = Reevaluated(dm.stacks[i])

\* both clients have an Ok answer to the call op, and the vector has been
\* written twice since the first of the two calls began: by these two calls
BothAnswered(op) ==
    /\ dm.pc = "live"
    /\ \A c \in Clients :
          /\ dm.tasks[c].pc = "done"
          /\ dm.tasks[c].op = op
          /\ dm.tasks[c].res = Ok("unit")
    /\ \E c \in Clients :
          /\ dm.changes = dm.tasks[c].began + 2
          /\ \A d \in Clients : dm.tasks[c].began <= dm.tasks[d].began

\* the atoms and bonds of the patch stand in the Fill layer
HoldsPatch(config, patch) ==
    /\ config.tag = "DmFill"
    /\ \A k \in DOMAIN patch.atoms :
          k \in DOMAIN config.mol.atoms /\ config.mol.atoms[k] = patch.atoms[k]
    /\ \A k \in DOMAIN patch.bonds :
          k \in DOMAIN config.mol.bonds /\ config.mol.bonds[k] = patch.bonds[k]

\* the indexes an overlay_to call names
Wanted(t) == {t.indexes[k] : k \in 1 .. Len(t.indexes)}

\* C28: two write_to_layer calls on the same index that both return Ok are both
\* in the stored stack: its top Fill layer holds both patches; and of two
\* overlay_to calls on the same index that both return Ok the stored stack
\* holds both layers, one over the other, over the stack that was there.
C28_NoLostUpdate ==
    /\ (BothAnswered("write_to_layer") /\ dm.tasks[1].idx = dm.tasks[2].idx) =>
          \A c \in Clients :
              HoldsPatch(dm.stacks[dm.tasks[c].idx + 1].config, dm.tasks[c].patch)
    /\ BothAnswered("overlay_to") =>
          \A idx \in Wanted(dm.tasks[1]) \cap Wanted(dm.tasks[2]) :
              \E c \in Clients, d \in Clients :
                  /\ c # d
                  /\ dm.stacks[idx + 1].config = dm.tasks[d].config
                  /\ IsSome(dm.stacks[idx + 1].base)
                  /\ dm.stacks[idx + 1].base.val.config = dm.tasks[c].config
                  /\ dm.stacks[idx + 1].base.val.base = Some(dm.tasks[c].pre[idx + 1])

\* C29: overlay_to never aborts; it fails with NoSuchStack and has written
\* nothing, or it returns Ok and its write replaced exactly the stacks at the
\* indexes asked for, each by the overlay of the stack that was stored there,
\* also with remove_stack or new_empty_stack between its steps.
C29_OverlayAllOrNothing ==
    dm.pc = "live" =>
        \A c \in Clients :
            LET t == dm.tasks[c] IN
            (t.pc # "idle" /\ t.op = "overlay_to") =>
                /\ t.pc # "aborted"
                /\ (t.pc = "done" /\ ~IsOk(t.res)) =>
                      (t.res = Err(NoSuchStack) /\ "post" \notin DOMAIN t)
                /\ (t.pc = "done" /\ IsOk(t.res)) =>
                      /\ Len(t.post) = Len(t.pre)
                      /\ \A i \in 1 .. Len(t.pre) :
                            IF (i - 1) \in Wanted(t)
                            THEN Ok(t.post[i]) = StackOverlay(Some(t.pre[i]), t.config)
                            ELSE t.post[i] = t.pre[i]

(* -------------------------- properties: utils ------------------------- *)

PairsBuilt == calc.pc = "done" /\ calc.fn = "pair"

\* C22: the pair built from (a, b) equals the pair built from (b, a) and both
\* have the same hash, whichever way the pair is obtained: from a tuple or an
\* array, by Pair::new, by a shift, by deserialization.
C22_PairUnordered == PairsBuilt => (calc.eq /\ calc.hab = calc.hba)

Cleaned == calc.pc = "done" /\ calc.fn = "clean_molecule"

\* the number of present atoms with an index below i
NewIndex(atoms, i) == Cardinality({j \in PresentIdxs(atoms) : j < i})

\* the bond entries that have a bond order and two present endpoints
Surviving(atoms, bonds) ==
    {i \in 1 .. Len(bonds) :
        /\ IsSome(bonds[i].value)
        /\ bonds[i].key.fst \in PresentIdxs(atoms)
        /\ bonds[i].key.snd \in PresentIdxs(atoms)}

\* out has the present atoms in the order of their indices, renumbered from
\* 0, and for each surviving bond, and for nothing else, its remapped key at
\* some place of bonds_idxs with its value at the same place of bonds_values
CleanedWell(atoms, bonds, out) ==
    /\ Len(out.atoms) = Cardinality(PresentIdxs(atoms))
    /\ \A i \in PresentIdxs(atoms) : out.atoms[NewIndex(atoms, i) + 1] = atoms[i].val
    /\ Len(out.bonds_idxs) = Cardinality(Surviving(atoms, bonds))
    /\ Len(out.bonds_values) = Len(out.bonds_idxs)
    /\ \A i \in Surviving(atoms, bonds) : \E j \in 1 .. Len(out.bonds_idxs) :
          /\ out.bonds_idxs[j] = Pair(NewIndex(atoms, bonds[i].key.fst),
                                       NewIndex(atoms, bonds[i].key.snd))
          /\ out.bonds_values[j] = bonds[i].value.val

\* C24: clean_molecule drops the tombstones, orders the atoms by index and
\* renumbers them from 0, keeps exactly the bonds with a bond order and two
\* surviving endpoints, remapped and paired with their values, and gives the
\* identical output, the order of the bond lists included, on every call with
\* the same molecule.
C24_CleanDeterministic ==
    Cleaned =>
        /\ CleanedWell(calc.atoms, calc.bonds, calc.first)
        /\ CleanedWell(calc.atoms, calc.bonds, calc.second)
        /\ calc.first = calc.second

InsertAnswered == uvm.pc = "live" /\ uvm.last.op = "insert"

\* C23: insert(k, v) with v no value of the map binds k to v and answers
\* Created when k was unbound and Updated(old value) when it was bound; with v
\* the value of a key k' it answers Duplicated(k') and leaves the map as it was.
C23_InsertResult ==
    InsertAnswered =>
        LET pre == uvm.last.pre.map
            k == uvm.last.k
            v == uvm.last.v
            res == uvm.last.res
        IN  IF v \notin Values(pre)
            THEN /\ uvm.m.map = (k :> v) @@ pre
                 /\ res = IF k \in DOMAIN pre THEN Updated(pre[k]) ELSE Created
            ELSE /\ \E key \in DOMAIN pre : pre[key] = v /\ res = Duplicated(key)
                 /\ uvm.m = uvm.last.pre

\* the third insert of the test uniq_val_map
C23_Witness ==
    /\ InsertAnswered
    /\ uvm.origin = "new"
    /\ uvm.last.k = "entry" /\ uvm.last.v = 2
    /\ uvm.last.res = Duplicated("center")
    /\ uvm.m = [map |-> ("center" :> 2), validate |-> {2}]

\* C30: after any sequence of insert and remove on a UniqueValueMap that was
\* new or came from a successful from_map, no two keys have the same value and
\* validate is the set of the values the map holds.
C30_UniqueAndValidated ==
    uvm.pc = "live" =>
        /\ \A j \in DOMAIN uvm.m.map : \A k \in DOMAIN uvm.m.map :
              uvm.m.map[j] = uvm.m.map[k] => j = k
        /\ uvm.m.validate = Values(uvm.m.map)

\* a loaded map after a remove, with values left in it
C30_Witness ==
    /\ uvm.pc = "live"
    /\ uvm.origin = "from_map"
    /\ uvm.last.op = "remove"
    /\ uvm.last.res # None
    /\ Cardinality(uvm.m.validate) = 2
    /\ uvm.m.validate = Values(uvm.m.map)

(* ------------------------- properties: layers ------------------------- *)

\* a Fill layer of the core has just been applied
FillApplied == eval.pc # "idle" /\ eval.rev = "core" /\ eval.applied.tag = "Fill"

\* the map r holds, key for key, h's entry where h has the key and else l's
HighOverLow(r, l, h) ==
    /\ DOMAIN r = (DOMAIN l) \cup (DOMAIN h)
    /\ \A k \in DOMAIN h : r[k] = h[k]
    /\ \A k \in (DOMAIN l) \ (DOMAIN h) : r[k] = l[k]

\* C16: merge(L, H) maps every atom index to H's entry when the index is a key
\* of H, a tombstone over a live atom of L included, and otherwise to L's
\* entry; bond keys alike; a key of neither is no key of the result.
C16_MergeHighOverLow ==
    FillApplied =>
        /\ HighOverLow(eval.container.atoms, eval.low.atoms, eval.applied.mol.atoms)
        /\ HighOverLow(eval.container.bonds, eval.low.bonds, eval.applied.mol.bonds)

C16_Witness ==
    /\ FillApplied
    /\ \E i \in DOMAIN eval.low.atoms :
          /\ IsSome(eval.low.atoms[i])
          /\ i \in DOMAIN eval.applied.mol.atoms
          /\ eval.applied.mol.atoms[i] = None
          /\ eval.container.atoms[i] = None
    /\ \E k \in DOMAIN eval.low.bonds :
          /\ k \in DOMAIN eval.applied.mol.bonds
          /\ eval.container.bonds[k] = eval.applied.mol.bonds[k]
          /\ eval.container.bonds[k] # eval.low.bonds[k]

\* the evaluation of the core stack layers over the base {1: H} is done
ReadOf(layers) ==
    /\ eval.pc = "done"
    /\ eval.rev = "core"
    /\ eval.base = MolH
    /\ eval.layers = layers

\* C17 as stated: over the base {1: H}, [RemoveElement(1), Fill({1: C})] reads
\* index 1 as a live atom of element 6 and [Fill({1: C}), RemoveElement(1)]
\* reads index 1 as a tombstone.
C17_ScenarioC ==
    /\ ReadOf(<<RemoveElement(1), Fill(MolC)>>) =>
          (IsOk(eval.res) /\ eval.res.val.atoms[1] = Some(AtomC))
    /\ ReadOf(<<Fill(MolC), RemoveElement(1)>>) =>
          (IsOk(eval.res) /\ eval.res.val.atoms[1] = None)

\* C17 amended: over the base {1: H}, [RemoveElement(1), Fill({1: C})] and
\* [Fill({1: C}), RemoveElement(1)] both read index 1 as a live atom of element
\* 6, RemoveElement(1) erasing atoms of element 1 only; the order of the layers
\* shows with the element that is filled in: [RemoveElement(6), Fill({1: C})]
\* reads index 1 as a live atom of element 6 and [Fill({1: C}), RemoveElement(6)]
\* reads it as a tombstone.
C17_LayerOrder ==
    /\ ReadOf(<<RemoveElement(1), Fill(MolC)>>) =>
          (IsOk(eval.res) /\ eval.res.val.atoms[1] = Some(AtomC))
    /\ ReadOf(<<Fill(MolC), RemoveElement(1)>>) =>
          (IsOk(eval.res) /\ eval.res.val.atoms[1] = Some(AtomC))
    /\ ReadOf(<<RemoveElement(6), Fill(MolC)>>) =>
          (IsOk(eval.res) /\ eval.res.val.atoms[1] = Some(AtomC))
    /\ ReadOf(<<Fill(MolC), RemoveElement(6)>>) =>
          (IsOk(eval.res) /\ eval.res.val.atoms[1] = None)

C17_Witness ==
    /\ ReadOf(<<Fill(MolC), RemoveElement(6)>>)
    /\ eval.res.val.atoms[1] = None

\* the same IgnoreBonds or RemoveElement(z) layer has been applied twice in a row
TwiceApplied ==
    /\ eval.pc # "idle"
    /\ eval.rev = "core"
    /\ eval.pos = 3
    /\ eval.layers[1] = eval.layers[2]
    /\ eval.layers[1].tag \in {"IgnoreBonds", "RemoveElement"}

\* C21: IgnoreBonds and RemoveElement(z) are idempotent: the molecule after the
\* second application of the layer is the molecule after the first.
C21_Idempotent == TwiceApplied => eval.container = eval.low

\* RemoveElement(1) twice over a molecule with hydrogens, bonds untouched
C21_Witness ==
    /\ TwiceApplied
    /\ eval.layers[1] = RemoveElement(1)
    /\ eval.low # eval.base
    /\ eval.container = eval.low
    /\ eval.container.bonds # EmptyMap

\* a layer that moves atoms has just been applied
MoveApplied ==
    /\ eval.pc # "idle"
    /\ eval.applied.tag \in {"Transform", "Translate", "Rotation"}

\* C20: a coordinate-transform layer (Transform; Translate and Rotation of
\* data_manager.rs) changes only the positions of present atoms: the keys of
\* the atom map, every atom's element, every tombstone and the edge map are
\* the same before and after.
C20_TransformFrame ==
    MoveApplied =>
        /\ DOMAIN eval.container.atoms = DOMAIN eval.low.atoms
        /\ \A k \in DOMAIN eval.low.atoms :
              IF IsSome(eval.low.atoms[k])
              THEN /\ IsSome(eval.container.atoms[k])
                   /\ eval.container.atoms[k].val.element = eval.low.atoms[k].val.element
              ELSE eval.container.atoms[k] = None
        /\ eval.container.bonds = eval.low.bonds

(* ------------------------ properties: StackTree ----------------------- *)

RECURSIVE NodesOf(_, _, _)
RECURSIVE NodesOfAll(_, _, _, _)
\* the nodes of a tree in preorder, each with the layers on the path from
\* the root to it (path), the child positions on that path (at) and its indexes
NodesOf(tree, path, at) ==
    <<[path |-> Append(path, tree.layer), at |-> at, indexes |-> tree.indexes]>>
        \o NodesOfAll(tree.children, Append(path, tree.layer), at, 1)

\* the nodes of the trees from the k-th on, siblings below the node at
NodesOfAll(trees, path, at, k) ==
    IF k > Len(trees) THEN <<>>
    ELSE NodesOf(trees[k], path, Append(at, k)) \o NodesOfAll(trees, path, at, k + 1)

ForestNodes == NodesOfAll(dh.trees, <<>>, <<>>, 1)

\* the places, node and position in its indexes list, where the number i stands
Holders(nodes, i) ==
    {h \in UNION {{<<n, k>> : k \in 1 .. Len(nodes[n].indexes)} : n \in 1 .. Len(nodes)} :
        nodes[h[1]].indexes[h[2]] = i}

\* the node that holds the index i
NodeOfIndex(nodes, i) == nodes[(CHOOSE h \in Holders(nodes, i) : TRUE)[1]]

\* dehydration has a forest for the first dh.idx stacks
HasForest == dh.pc \in {"loop", "done"}

\* C18: in the forest that dehydration builds from N stacks every index
\* 0..N-1 stands in the indexes list of exactly one node, once, no other number
\* stands in any indexes list, and the layers on the path from the root to that
\* node are the layers of that stack from the bottom to the top.
C18_IndexesOncePathIsStack ==
    HasForest =>
        LET nodes == ForestNodes IN
        /\ \A i \in 0 .. (dh.idx - 1) :
              /\ Cardinality(Holders(nodes, i)) = 1
              /\ NodeOfIndex(nodes, i).path = LayerVals(dh.stks[i + 1].layers)
        /\ \A n \in 1 .. Len(nodes) : \A k \in 1 .. Len(nodes[n].indexes) :
              nodes[n].indexes[k] \in 0 .. (dh.idx - 1)

\* three stacks are in, two of them with the same layers, one two layers deep
C18_Witness ==
    /\ dh.pc = "done"
    /\ dh.idx = 3
    /\ \E n \in 1 .. Len(ForestNodes) : Len(ForestNodes[n].indexes) = 2
    /\ \E n \in 1 .. Len(ForestNodes) :
          Len(ForestNodes[n].path) = 2 /\ Len(ForestNodes[n].indexes) = 1

RECURSIVE DistinctSiblings(_)
\* no two of the trees, and no two children of one node in them, carry equal layers
DistinctSiblings(trees) ==
    /\ \A a \in 1 .. Len(trees) : \A b \in 1 .. Len(trees) :
          a # b => trees[a].layer # trees[b].layer
    /\ \A a \in 1 .. Len(trees) : DistinctSiblings(trees[a].children)

\* the first k of s
Prefix(s, k) == SubSeq(s, 1, k)

StackAB == <<IgnoreBonds, RemoveElement(1)>>
StackAC == <<IgnoreBonds, RemoveElement(6)>>
ForestABAC ==
    << [layer |-> IgnoreBonds, indexes |-> <<>>,
        children |-> << [layer |-> RemoveElement(1), indexes |-> <<0>>, children |-> <<>>],
                        [layer |-> RemoveElement(6), indexes |-> <<1>>, children |-> <<>>] >>] >>

\* the stacks [A, B] and [A, C] have been dehydrated
DoneABAC ==
    /\ dh.pc = "done"
    /\ Len(dh.stks) = 2
    /\ LayerVals(dh.stks[1].layers) = StackAB
    /\ LayerVals(dh.stks[2].layers) = StackAC

\* C19: in the forest that dehydration builds no two roots and no two children
\* of one node carry equal layers; two stacks whose first k layers are equal
\* have the same first k nodes on their paths; the stacks [A, B] and [A, C] give
\* one root A without indexes and the children B with indexes [0] and C with
\* indexes [1].
C19_SiblingsDistinctPrefixShared ==
    /\ HasForest =>
          LET nodes == ForestNodes IN
          /\ DistinctSiblings(dh.trees)
          /\ \A i \in 0 .. (dh.idx - 1) : \A j \in 0 .. (dh.idx - 1) :
                LET si == LayerVals(dh.stks[i + 1].layers)
                    sj == LayerVals(dh.stks[j + 1].layers)
                IN  \A k \in 1 .. Len(si) :
                        (k <= Len(sj) /\ Prefix(si, k) = Prefix(sj, k)) =>
                            Prefix(NodeOfIndex(nodes, i).at, k) = Prefix(NodeOfIndex(nodes, j).at, k)
    /\ DoneABAC => dh.trees = ForestABAC

C19_Witness == DoneABAC /\ dh.trees = ForestABAC

(* ---------------------- properties: plugin bridge --------------------- *)

\* the steps of a plugin evaluation in the order they are to be made
StepOrder == <<"spawn", "serialize", "write", "close", "wait", "parse", "merge">>

\* the code that reports the failure of a step; closing the pipe and waiting
\* are one call and share the code of wait/output
StepCode(step) ==
    CASE step = "spawn" -> -1
      [] step = "serialize" -> -2
      [] step = "write" -> -3
      [] step \in {"close", "wait"} -> -4
      [] step = "parse" -> -5

IsPrefix(a, b) == Len(a) <= Len(b) /\ \A k \in 1 .. Len(a) : a[k] = b[k]

\* the first step that cannot succeed in the evaluation, from what the plugin
\* is and what the environment does ("none" if every step succeeds)
FirstFailure(c) ==
    CASE PluginBehaviour(c.plugin) = "missing" -> "spawn"
      [] PluginBehaviour(c.plugin) # "missing" /\ c.fault = "serialize" -> "serialize"
      [] PluginBehaviour(c.plugin) # "missing" /\ c.fault # "serialize"
            /\ (c.fault = "write" \/ PluginBehaviour(c.plugin) = "no_read") -> "write"
      [] PluginBehaviour(c.plugin) \notin {"missing", "no_read"} /\ c.fault = "wait" -> "wait"
      [] PluginBehaviour(c.plugin) \notin {"missing", "no_read"} /\ c.fault = "none" ->
            IF IsOk(Deserialize(c.output)) THEN "none" ELSE "parse"

\* C12: a PluginFilter evaluation makes its steps in the order spawn, serialize,
\* write, close, wait, parse, merge; the first step that fails ends it with that
\* step's own code, no later step is made and nothing is merged; different
\* failing steps give different codes.
C12_PluginStepOrder ==
    child.pc # "idle" =>
        /\ IsPrefix(child.steps, StepOrder)
        /\ (child.pc = "done" /\ ~IsOk(child.ret)) =>
               LET failed == child.steps[Len(child.steps)] IN
               /\ failed = FirstFailure(child)
               /\ child.ret.err.code = StepCode(failed)
               /\ \A other \in {"spawn", "serialize", "write", "wait", "parse"} \ {failed} :
                      StepCode(other) # child.ret.err.code
               /\ "merge" \notin {child.steps[k] : k \in 1 .. Len(child.steps)}
        /\ (child.pc = "done" /\ IsOk(child.ret)) =>
               /\ child.steps = StepOrder
               /\ FirstFailure(child) = "none"
        /\ (child.pc = "done" /\ child.fault = "none") =>
               child.ret = PluginFilterRun(child.plugin, child.args, child.low).res

C12_Witness ==
    /\ child.pc = "done"
    /\ ~IsOk(child.ret)
    /\ child.ret.err.code = -4
    /\ child.steps = <<"spawn", "serialize", "write", "close", "wait">>

(* ---------------------- properties: server store ---------------------- *)

Answered(c, kind) == task[c].pc = "done" /\ task[c].kind = kind
Succeeded(c) == task[c].status = "OK"

\* a create of a name that has a workspace is rejected and leaves that
\* workspace in place; a create of a name that has none stores its own
CreateRespectsNames ==
    \A c \in Clients :
        Answered(c, "create") =>
            IF IsSome(task[c].found)
            THEN task[c].status = "CONFLICT" /\ task[c].left = task[c].found
            ELSE Succeeded(c) /\ task[c].left = Made(c)

\* of two creates for one name in progress together, the one that comes to the
\* store second, with the workspace of the first still there, does not succeed
\* and the store keeps the workspace of the first
OneCreateWins ==
    \A c, d \in Clients :
        (/\ c # d
         /\ Answered(c, "create") /\ Answered(d, "create")
         /\ task[c].ws = task[d].ws
         /\ Succeeded(c)
         /\ task[d].found = Made(c))
            => (~Succeeded(d) /\ store[task[c].ws] = Made(c))

\* a remove of a name without a workspace says not-found and changes nothing
RemoveMissing ==
    \A c \in Clients :
        Answered(c, "remove") =>
            /\ (task[c].status = "NOT_FOUND") <=> ~IsSome(task[c].found)
            /\ task[c].status = "NOT_FOUND" => task[c].left = task[c].found

\* C14: creating a workspace under a name that is in the store is rejected with
\* a name conflict and leaves the stored workspace untouched, also when two
\* create requests for the name run concurrently: exactly one of them succeeds
\* and its workspace is the one stored; deleting a name that is not in the
\* store reports not-found and changes nothing.
C14_CreateConflict == CreateRespectsNames /\ OneCreateWins /\ RemoveMissing

(* ------------------------ properties: handlers ------------------------ *)

\* the stacks a batch call gives when it runs alone on the stacks it found
BatchAlone(l) ==
    IF l.op = "write_to_stack"
    THEN WriteToStackOp(l.pre, l.start, l.range, l.data, l.order, l.checks).stacks
    ELSE AddLayerToStackOp(l.pre, l.start, l.range, l.layer, l.order, l.checks).stacks

Overlap(a, b) ==
    \E i \in 0 .. MaxStacks :
        /\ a.start <= i /\ i < a.start + a.range
        /\ b.start <= i /\ i < b.start + b.range

\* C13: batch mutators issued concurrently take effect one wholly after the
\* other, in the order in which they got the workspace lock: nobody else
\* changes the stacks a handler found while it holds the lock, and a batch
\* leaves exactly the stacks it would give running alone on the stacks it found.
C13_BatchesSerialised ==
    /\ last.op \in BatchKinds => last.post = BatchAlone(last)
    /\ last # Idle => (stacks = last.post /\ lock = NoHolder)
    /\ \A c \in Clients :
          (req[c].pc = "locked" /\ req[c].kind # "read_stacks") =>
              (lock = c /\ stacks = req[c].pre)

C13_Witness ==
    /\ last.op \in BatchKinds
    /\ last.behind # Idle
    /\ Overlap(last, last.behind)
    /\ last.range = 2
    /\ last.pre # last.behind.found
    /\ last.post # last.pre
    /\ last.post = BatchAlone(last)

\* C5: no workspace lock is held while a plugin subprocess runs: the handler
\* that waits for a child process does not hold the workspace mutex.
C5_NoLockAcrossPlugin ==
    \A c \in Clients : req[c].pc = "plugin" => lock # c
====
